---- MODULE Spec2Model ----
(***************************************************************************)
(* The Mutagen Compose liaison (pkg/mutagen/liaison.go):                   *)
(* Liaison.reconcileSessions against the session inventory held by the     *)
(* Mutagen daemon (specification Spec), and Liaison.processProject on the  *)
(* project handed to it by Compose (specification BuildSpec).              *)
(*                                                                         *)
(* One reconciliation pass is a strictly ordered sequence of blocking      *)
(* daemon calls.  Each action below is one daemon call together with the   *)
(* local code that follows it up to the next call; every call may fail,    *)
(* and a failure returns from the pass.                                    *)
(***************************************************************************)
EXTENDS Integers, Sequences, FiniteSets, TLC

VARIABLES
    forwarding,                 \* Liaison.forwarding: name -> creation specification
    synchronization,            \* Liaison.synchronization: name -> creation specification
    forwardingSessions,         \* daemon: the forwarding sessions it holds
    synchronizationSessions,    \* daemon: the synchronization sessions it holds
    nextIdentifier,             \* daemon: the next fresh session identifier
    pass,                       \* per invocation: the locals of reconcileSessions
    project,                    \* the project handed to processProject
    daemonOSType,               \* Docker daemon: the operating system it reports
    build,                      \* the locals of processProject
    compose                     \* the locals of the call of composeService

vars == <<forwarding, synchronization, forwardingSessions,
          synchronizationSessions, nextIdentifier, pass,
          project, daemonOSType, build, compose>>

-----------------------------------------------------------------------------
(* Bounds of the model. *)

\* The number of sessions the daemon holds before the first pass.
MaxExisting == 2

\* Session names used by specifications and by existing sessions.
Names == {"web", "data"}

\* The invocations of reconcileSessions that exist, and those that run one
\* after the other in the sequential specification.
Procs == {1}

\* The identifiers the daemon can give out: those of the existing sessions
\* and one per specification created by each of two passes.
IdentifierLimit == MaxExisting + 4 * Cardinality(Names)

\* The identity of the sidecar container, as a sequence of characters.
SidecarIDs == {<<"c", "0", "f", "e">>}

-----------------------------------------------------------------------------
(* URLs, configurations and creation specifications. *)

\* l.dockerCLI.Client().DaemonHost()
dockerHost == "unix:///var/run/docker.sock"

\* The label key under which a session records the sidecar that owns it.
sessionSidecarLabelKey == "io.mutagen.compose.sidecar"

\* The number of leading characters of the sidecar identity kept in the label.
ChoppedLength == 3

\* chopSidecarIdentifier: the truncated sidecar identity.
chopSidecarIdentifier(sidecarID) ==
    SubSeq(sidecarID, 1, IF Len(sidecarID) < ChoppedLength
                         THEN Len(sidecarID) ELSE ChoppedLength)

localURL(path) ==
    [Protocol |-> "local", Host |-> <<>>, Path |-> path, Environment |-> ""]

\* The placeholder URL of an address inside the (not yet created) sidecar.
sidecarURL(inner) ==
    [Protocol |-> "sidecar", Host |-> <<>>, Path |-> inner, Environment |-> ""]

\* reifySidecarURLIfNecessary: a placeholder becomes a concrete Docker URL
\* naming the sidecar container; any other URL is left alone.
reifySidecarURLIfNecessary(u, host, sidecarID) ==
    IF u.Protocol = "sidecar"
    THEN [Protocol |-> "docker", Host |-> sidecarID, Path |-> u.Path,
          Environment |-> host]
    ELSE u

\* A specification carries no labels until reconcileSessions sets them.
NoLabels == [key \in {} |-> ""]

\* The forwarding specification processProject records for a session.
ForwardingCreationSpecification(name, network, mode) ==
    [Source                   |-> localURL("tcp:localhost:8080"),
     Destination              |-> sidecarURL(network),
     Configuration            |-> [SocketOverwriteMode |-> mode],
     ConfigurationSource      |-> [SocketOverwriteMode |-> ""],
     ConfigurationDestination |-> [SocketOverwriteMode |-> ""],
     Name                     |-> name,
     Labels                   |-> NoLabels]

\* The synchronization specification processProject records for a session.
SynchronizationCreationSpecification(name, volume, mode) ==
    [Alpha              |-> localURL("/project/app"),
     Beta               |-> sidecarURL(volume),
     Configuration      |-> [SynchronizationMode |-> mode],
     ConfigurationAlpha |-> [SynchronizationMode |-> ""],
     ConfigurationBeta  |-> [SynchronizationMode |-> ""],
     Name               |-> name,
     Labels             |-> NoLabels]

\* Lines 432-438: the forwarding specification made concrete and labelled.
\* Mutant: the forwarding specification is labelled with the whole identity
\* of the sidecar.
ReifyForwardingWholeLabel(specification, sidecarID) ==
    [specification EXCEPT
        !.Source = reifySidecarURLIfNecessary(@, dockerHost, sidecarID),
        !.Destination = reifySidecarURLIfNecessary(@, dockerHost, sidecarID),
        !.Labels = (sessionSidecarLabelKey :> sidecarID)]

ReifyForwarding(specification, sidecarID) ==
    [specification EXCEPT
        !.Source = reifySidecarURLIfNecessary(@, dockerHost, sidecarID),
        !.Destination = reifySidecarURLIfNecessary(@, dockerHost, sidecarID),
        !.Labels = (sessionSidecarLabelKey :> chopSidecarIdentifier(sidecarID))]

\* Mutant: the synchronization specification is made concrete but not labelled.
ReifySynchronizationUnlabelled(specification, sidecarID) ==
    [specification EXCEPT
        !.Alpha = reifySidecarURLIfNecessary(@, dockerHost, sidecarID),
        !.Beta = reifySidecarURLIfNecessary(@, dockerHost, sidecarID)]

\* Lines 439-445: the synchronization specification made concrete and labelled.
ReifySynchronization(specification, sidecarID) ==
    [specification EXCEPT
        !.Alpha = reifySidecarURLIfNecessary(@, dockerHost, sidecarID),
        !.Beta = reifySidecarURLIfNecessary(@, dockerHost, sidecarID),
        !.Labels = (sessionSidecarLabelKey :> chopSidecarIdentifier(sidecarID))]

\* Lines 459-461: the selection of the sessions owned by the sidecar.
projectSelection(sidecarID) ==
    [LabelSelector |-> <<sessionSidecarLabelKey, chopSidecarIdentifier(sidecarID)>>]

-----------------------------------------------------------------------------
(* The daemon, at its interface. *)

\* The session the daemon records for a forwarding creation specification.
ForwardingSession(identifier, specification) ==
    [Identifier               |-> identifier,
     Name                     |-> specification.Name,
     Source                   |-> specification.Source,
     Destination              |-> specification.Destination,
     Configuration            |-> specification.Configuration,
     ConfigurationSource      |-> specification.ConfigurationSource,
     ConfigurationDestination |-> specification.ConfigurationDestination,
     Labels                   |-> specification.Labels,
     Paused                   |-> FALSE]

\* The session the daemon records for a synchronization creation specification.
SynchronizationSession(identifier, specification) ==
    [Identifier         |-> identifier,
     Name               |-> specification.Name,
     Alpha              |-> specification.Alpha,
     Beta               |-> specification.Beta,
     Configuration      |-> specification.Configuration,
     ConfigurationAlpha |-> specification.ConfigurationAlpha,
     ConfigurationBeta  |-> specification.ConfigurationBeta,
     Labels             |-> specification.Labels,
     Paused             |-> FALSE]

\* Mutant: a session is selected as soon as it carries the key of the label.
SelectedByKey(session, selection) ==
    selection.LabelSelector[1] \in DOMAIN session.Labels

\* Whether a session carries the label a label selector asks for.
Selected(session, selection) ==
    /\ selection.LabelSelector[1] \in DOMAIN session.Labels
    /\ session.Labels[selection.LabelSelector[1]] = selection.LabelSelector[2]

\* The orders in which the elements of a set may be met: the order of a
\* listing response, and the order in which Go ranges over a map.
Orders(S) ==
    {order \in [1..Cardinality(S) -> S] :
        \A i, j \in 1..Cardinality(S) : order[i] = order[j] => i = j}

\* The set of the elements of a sequence.
Range(s) == {s[i] : i \in 1..Len(s)}

\* The empty map.
EmptyMap == [key \in {} |-> 0]

-----------------------------------------------------------------------------
(* The currency check. *)

\* forwardingSessionCurrent: the session has the endpoints and the
\* configuration of the specification.
forwardingSessionCurrent(session, specification) ==
    /\ session.Source = specification.Source
    /\ session.Destination = specification.Destination
    /\ session.Configuration = specification.Configuration
    /\ session.ConfigurationSource = specification.ConfigurationSource
    /\ session.ConfigurationDestination = specification.ConfigurationDestination

\* synchronizationSessionCurrent: the session has the endpoints and the
\* configuration of the specification.
synchronizationSessionCurrent(session, specification) ==
    /\ session.Alpha = specification.Alpha
    /\ session.Beta = specification.Beta
    /\ session.Configuration = specification.Configuration
    /\ session.ConfigurationAlpha = specification.ConfigurationAlpha
    /\ session.ConfigurationBeta = specification.ConfigurationBeta

-----------------------------------------------------------------------------
(* Classification of the listed sessions (lines 481-509). *)

\* Mutant: a session without a specification is not seen as an orphan.
forwardingOrphanNever(specifications, session) == FALSE

\* Mutant: a forwarding session is kept when a specification of either kind
\* has its name.
forwardingOrphanOfNoKind(specifications, session) ==
    session.Name \notin DOMAIN specifications \cup DOMAIN synchronization

\* Line 487: the listed session has no specification of its name.
forwardingOrphan(specifications, session) ==
    session.Name \notin DOMAIN specifications

\* Mutant: a second session of a name is not seen as a duplicate.
forwardingDuplicatedNever(nameToSession, session) == FALSE

\* Line 489: an earlier listed session already holds the name.
forwardingDuplicated(nameToSession, session) ==
    session.Name \in DOMAIN nameToSession

\* Lines 486-494: the loop over the forwarding listing, from state i on.
RECURSIVE forwardingClassify(_, _, _, _, _)
forwardingClassify(states, i, specifications, pruneList, nameToSession) ==
    IF i > Len(states)
    THEN [pruneList |-> pruneList, nameToSession |-> nameToSession]
    ELSE IF forwardingOrphan(specifications, states[i])
    THEN forwardingClassify(states, i + 1, specifications,
                            Append(pruneList, states[i].Identifier), nameToSession)
    ELSE IF forwardingDuplicated(nameToSession, states[i])
    THEN forwardingClassify(states, i + 1, specifications,
                            Append(pruneList, states[i].Identifier), nameToSession)
    ELSE forwardingClassify(states, i + 1, specifications, pruneList,
                            (states[i].Name :> states[i]) @@ nameToSession)

\* Line 502: the listed session has no specification of its name.
synchronizationOrphan(specifications, session) ==
    session.Name \notin DOMAIN specifications

\* Mutant: a second session of a name is not seen as a duplicate.
synchronizationDuplicatedNever(nameToSession, session) == FALSE

\* Line 504: an earlier listed session already holds the name.
synchronizationDuplicated(nameToSession, session) ==
    session.Name \in DOMAIN nameToSession

\* Lines 501-509: the loop over the synchronization listing, from state i on.
RECURSIVE synchronizationClassify(_, _, _, _, _)
synchronizationClassify(states, i, specifications, pruneList, nameToSession) ==
    IF i > Len(states)
    THEN [pruneList |-> pruneList, nameToSession |-> nameToSession]
    ELSE IF synchronizationOrphan(specifications, states[i])
    THEN synchronizationClassify(states, i + 1, specifications,
                                 Append(pruneList, states[i].Identifier), nameToSession)
    ELSE IF synchronizationDuplicated(nameToSession, states[i])
    THEN synchronizationClassify(states, i + 1, specifications,
                                 Append(pruneList, states[i].Identifier), nameToSession)
    ELSE synchronizationClassify(states, i + 1, specifications, pruneList,
                                 (states[i].Name :> states[i]) @@ nameToSession)

-----------------------------------------------------------------------------
(* Sessions to create or to recreate (lines 511-531). *)

\* Mutant: every specification is taken to have no session.
forwardingMissingAlways(nameToSession, name) == TRUE

\* Line 514: no listed session holds the name of the specification.
forwardingMissing(nameToSession, name) ==
    name \notin DOMAIN nameToSession

\* Mutant: every session is taken to differ from its specification.
forwardingStaleAlways(nameToSession, specifications, name) == TRUE

\* Line 516: the session that holds the name differs from the specification.
forwardingStale(nameToSession, specifications, name) ==
    ~forwardingSessionCurrent(nameToSession[name], specifications[name])

\* Lines 513-520: the loop over the forwarding specifications, met in the
\* order in which the map is ranged over, from position i on.
RECURSIVE forwardingDiff(_, _, _, _, _, _)
forwardingDiff(order, i, specifications, nameToSession, pruneList, createSpecifications) ==
    IF i > Len(order)
    THEN [pruneList |-> pruneList, createSpecifications |-> createSpecifications]
    ELSE IF forwardingMissing(nameToSession, order[i])
    THEN forwardingDiff(order, i + 1, specifications, nameToSession, pruneList,
                        Append(createSpecifications, specifications[order[i]]))
    ELSE IF forwardingStale(nameToSession, specifications, order[i])
    THEN forwardingDiff(order, i + 1, specifications, nameToSession,
                        Append(pruneList, nameToSession[order[i]].Identifier),
                        Append(createSpecifications, specifications[order[i]]))
    ELSE forwardingDiff(order, i + 1, specifications, nameToSession, pruneList,
                        createSpecifications)

\* Line 525: no listed session holds the name of the specification.
synchronizationMissing(nameToSession, name) ==
    name \notin DOMAIN nameToSession

\* Mutant: no session is taken to differ from its specification.
synchronizationStaleNever(nameToSession, specifications, name) == FALSE

\* Line 527: the session that holds the name differs from the specification.
synchronizationStale(nameToSession, specifications, name) ==
    ~synchronizationSessionCurrent(nameToSession[name], specifications[name])

\* Lines 524-531: the loop over the synchronization specifications, met in
\* the order in which the map is ranged over, from position i on.
RECURSIVE synchronizationDiff(_, _, _, _, _, _)
synchronizationDiff(order, i, specifications, nameToSession, pruneList, createSpecifications) ==
    IF i > Len(order)
    THEN [pruneList |-> pruneList, createSpecifications |-> createSpecifications]
    ELSE IF synchronizationMissing(nameToSession, order[i])
    THEN synchronizationDiff(order, i + 1, specifications, nameToSession, pruneList,
                             Append(createSpecifications, specifications[order[i]]))
    ELSE IF synchronizationStale(nameToSession, specifications, order[i])
    THEN synchronizationDiff(order, i + 1, specifications, nameToSession,
                             Append(pruneList, nameToSession[order[i]].Identifier),
                             Append(createSpecifications, specifications[order[i]]))
    ELSE synchronizationDiff(order, i + 1, specifications, nameToSession, pruneList,
                             createSpecifications)

-----------------------------------------------------------------------------
(* The pass: the locals of reconcileSessions and its control flow. *)

\* The nil error.
NoError == [message |-> "", session |-> ""]


\* One call issued to the daemon: the operation, the kind of session, the
\* identifiers it selects (empty for a label selection), the name of the
\* session created, whether it succeeded, and the skipWait argument of a flush.
Call(op, kind, identifiers, name, ok, skipWait) ==
    [op |-> op, kind |-> kind, identifiers |-> identifiers, name |-> name,
     ok |-> ok, skipWait |-> skipWait]

\* The locals of an invocation that has not started.
IdlePass ==
    [pc                                  |-> "idle",
     function                            |-> "",
     sidecarID                           |-> <<>>,
     daemonConnection                    |-> "none",
     err                                 |-> NoError,
     previous                            |-> "none",
     forwardingListResponse              |-> <<>>,
     synchronizationListResponse         |-> <<>>,
     forwardingPruneList                 |-> <<>>,
     synchronizationPruneList            |-> <<>>,
     forwardingCreateSpecifications      |-> <<>>,
     synchronizationCreateSpecifications |-> <<>>,
     forwardingCreated                   |-> 0,
     synchronizationCreated              |-> 0,
     newSynchronizationSessions          |-> <<>>,
     calls                               |-> <<>>]

\* How a pass ended, for the pass that follows it: "none" before the first
\* pass, "ok" after a return of nil, "error" after a return of an error.
Outcome(locals) ==
    IF locals.pc = "idle" THEN "none"
    ELSE IF locals.err = NoError THEN "ok"
    ELSE "error"

\* Mutant: a failed call is issued again instead of ending the pass.
FailedRetried(locals, call, message, session) ==
    [locals EXCEPT !.calls = Append(@, call)]

\* Mutant: a return with an error leaves the connection to the daemon open.
FailedLeavingOpen(locals, call, message, session) ==
    [locals EXCEPT !.pc = "returned",
                   !.err = [message |-> message, session |-> session],
                   !.calls = Append(@, call)]

\* Mutant: the error of a failed call does not name the session.
FailedUnnamed(locals, call, message, session) ==
    [locals EXCEPT !.pc = "returned",
                   !.err = [message |-> message, session |-> ""],
                   !.daemonConnection = "closed",
                   !.calls = Append(@, call)]

\* A return with an error after a failed call: the deferred Close runs.
Failed(locals, call, message, session) ==
    [locals EXCEPT !.pc = "returned",
                   !.err = [message |-> message, session |-> session],
                   !.daemonConnection = "closed",
                   !.calls = Append(@, call)]

\* Mutant: the sessions are created before the existing ones are resumed.
ProgramOrderCreateFirst ==
    <<"connect", "listForwarding", "listSynchronization",
      "pruneForwarding", "pruneSynchronization",
      "createForwarding", "createSynchronization",
      "resumeForwarding", "resumeSynchronization",
      "flush", "returned">>

\* Mutant: the existing sessions are resumed before the pruning.
ProgramOrderResumeFirst ==
    <<"connect", "listForwarding", "listSynchronization",
      "resumeForwarding", "resumeSynchronization",
      "pruneForwarding", "pruneSynchronization",
      "createForwarding", "createSynchronization",
      "flush", "returned">>

\* Mutant: the forwarding sessions are resumed before the synchronization
\* sessions are listed.
ProgramOrderResumeBeforeListing ==
    <<"connect", "listForwarding", "resumeForwarding", "listSynchronization",
      "pruneForwarding", "pruneSynchronization", "resumeSynchronization",
      "createForwarding", "createSynchronization",
      "flush", "returned">>

\* The blocks of reconcileSessions that call the daemon, in the order in which
\* the function has them (lines 447-594), and its return.
ProgramOrder ==
    <<"connect", "listForwarding", "listSynchronization",
      "pruneForwarding", "pruneSynchronization",
      "resumeForwarding", "resumeSynchronization",
      "createForwarding", "createSynchronization",
      "flush", "returned">>

Position(step) == CHOOSE i \in 1..Len(ProgramOrder) : ProgramOrder[i] = step

\* Mutant: the sessions are resumed only in a pass that has something to
\* prune or to create.
PendingResumeIfWork(step, locals) ==
    CASE step = "pruneForwarding" -> Len(locals.forwardingPruneList) > 0
      [] step = "pruneSynchronization" -> Len(locals.synchronizationPruneList) > 0
      [] step = "createForwarding" ->
            locals.forwardingCreated < Len(locals.forwardingCreateSpecifications)
      [] step = "createSynchronization" ->
            locals.synchronizationCreated < Len(locals.synchronizationCreateSpecifications)
      [] step = "flush" -> Len(locals.newSynchronizationSessions) > 0
      [] step \in {"resumeForwarding", "resumeSynchronization"} ->
            Len(locals.forwardingPruneList) + Len(locals.synchronizationPruneList)
            + Len(locals.forwardingCreateSpecifications)
            + Len(locals.synchronizationCreateSpecifications) > 0
      [] OTHER -> TRUE

\* Mutant: the terminate call is issued for an empty prune list too.
PendingPruneAlways(step, locals) ==
    CASE step = "createForwarding" ->
            locals.forwardingCreated < Len(locals.forwardingCreateSpecifications)
      [] step = "createSynchronization" ->
            locals.synchronizationCreated < Len(locals.synchronizationCreateSpecifications)
      [] step = "flush" -> Len(locals.newSynchronizationSessions) > 0
      [] OTHER -> TRUE

\* The condition under which a block is entered: lines 534, 543, 566, 575
\* and 585 (the other blocks are unconditional).
Pending(step, locals) ==
    CASE step = "pruneForwarding" -> Len(locals.forwardingPruneList) > 0
      [] step = "pruneSynchronization" -> Len(locals.synchronizationPruneList) > 0
      [] step = "createForwarding" ->
            locals.forwardingCreated < Len(locals.forwardingCreateSpecifications)
      [] step = "createSynchronization" ->
            locals.synchronizationCreated < Len(locals.synchronizationCreateSpecifications)
      [] step = "flush" -> Len(locals.newSynchronizationSessions) > 0
      [] OTHER -> TRUE

\* The block control reaches once the block `step` is left.
After(step, locals) ==
    LET later == {i \in (Position(step) + 1)..Len(ProgramOrder) :
                     Pending(ProgramOrder[i], locals)}
    IN  ProgramOrder[CHOOSE i \in later : \A j \in later : i <= j]

\* The locals once the call of block `step` has succeeded: control stays in a
\* loop that has more to do and goes on to the next block otherwise; on the
\* return the deferred Close runs.
Proceed(step, locals) ==
    LET next == IF step \in {"createForwarding", "createSynchronization"}
                   /\ Pending(step, locals)
                THEN step ELSE After(step, locals)
    IN  [locals EXCEPT !.pc = next,
                       !.daemonConnection = IF next = "returned" THEN "closed" ELSE @]

Daemon == <<forwardingSessions, synchronizationSessions, nextIdentifier>>
Liaison == <<forwarding, synchronization>>

-----------------------------------------------------------------------------
(* The steps of reconcileSessions. *)

\* Lines 429-445: the entry of reconcileSessions for a sidecar identity.
Reify(p) ==
    /\ pass[p].pc \in {"idle", "returned"}
    /\ \E sidecarID \in SidecarIDs :
        /\ forwarding' = [name \in DOMAIN forwarding |->
                             ReifyForwarding(forwarding[name], sidecarID)]
        /\ synchronization' = [name \in DOMAIN synchronization |->
                                  ReifySynchronization(synchronization[name], sidecarID)]
        /\ pass' = [pass EXCEPT ![p] =
                      [IdlePass EXCEPT
                          !.pc = "connect",
                          !.function = "reconcileSessions",
                          !.sidecarID = sidecarID,
                          !.previous = Outcome(pass[p])]]
    /\ UNCHANGED Daemon

\* Lines 447-452: daemon.Connect.
Connect(p) ==
    /\ pass[p].pc = "connect"
    /\ \/ pass' = [pass EXCEPT ![p] = Proceed("connect",
                     [@ EXCEPT !.daemonConnection = "open",
                               !.calls = Append(@, Call("connect", "", {}, "", TRUE, FALSE))])]
       \/ pass' = [pass EXCEPT ![p] =
                     [Failed(@, Call("connect", "", {}, "", FALSE, FALSE),
                             "unable to connect to Mutagen daemon", "")
                        EXCEPT !.daemonConnection = "none"]]
    /\ UNCHANGED <<Daemon, Liaison>>

\* Lines 463-470: the listing of the forwarding sessions of the project.
ListForwarding(p) ==
    /\ pass[p].pc = "listForwarding"
    /\ \/ \E states \in Orders({session \in forwardingSessions :
                                  Selected(session, projectSelection(pass[p].sidecarID))}) :
            pass' = [pass EXCEPT ![p] = Proceed("listForwarding",
                       [@ EXCEPT !.forwardingListResponse = states,
                                 !.calls = Append(@, Call("list", "forwarding", {}, "", TRUE, FALSE))])]
       \/ \E message \in {"forwarding session listing failed",
                          "invalid forwarding session listing response received"} :
            pass' = [pass EXCEPT ![p] =
                       Failed(@, Call("list", "forwarding", {}, "", FALSE, FALSE), message, "")]
    /\ UNCHANGED <<Daemon, Liaison>>

\* Lines 472-531: the listing of the synchronization sessions of the project,
\* then the classification of both listings and the lists of the sessions to
\* create.
ListSynchronization(p) ==
    /\ pass[p].pc = "listSynchronization"
    /\ \/ \E states \in Orders({session \in synchronizationSessions :
                                  Selected(session, projectSelection(pass[p].sidecarID))}),
             forwardingOrder \in Orders(DOMAIN forwarding),
             synchronizationOrder \in Orders(DOMAIN synchronization) :
            LET forwardingClassified ==
                    forwardingClassify(pass[p].forwardingListResponse, 1, forwarding,
                                       <<>>, EmptyMap)
                synchronizationClassified ==
                    synchronizationClassify(states, 1, synchronization, <<>>, EmptyMap)
                forwardingDiffed ==
                    forwardingDiff(forwardingOrder, 1, forwarding,
                                   forwardingClassified.nameToSession,
                                   forwardingClassified.pruneList, <<>>)
                synchronizationDiffed ==
                    synchronizationDiff(synchronizationOrder, 1, synchronization,
                                        synchronizationClassified.nameToSession,
                                        synchronizationClassified.pruneList, <<>>)
            IN  pass' = [pass EXCEPT ![p] = Proceed("listSynchronization",
                       [@ EXCEPT !.synchronizationListResponse = states,
                                 !.forwardingPruneList = forwardingDiffed.pruneList,
                                 !.synchronizationPruneList = synchronizationDiffed.pruneList,
                                 !.forwardingCreateSpecifications =
                                     forwardingDiffed.createSpecifications,
                                 !.synchronizationCreateSpecifications =
                                     synchronizationDiffed.createSpecifications,
                                 !.calls = Append(@, Call("list", "synchronization", {}, "", TRUE, FALSE))])]
       \/ \E message \in {"synchronization session listing failed",
                          "invalid synchronization session listing response received"} :
            pass' = [pass EXCEPT ![p] =
                       Failed(@, Call("list", "synchronization", {}, "", FALSE, FALSE), message, "")]
    /\ UNCHANGED <<Daemon, Liaison>>

\* The daemon's sessions after the termination of those with the identifiers.
Terminated(sessions, identifiers) ==
    {session \in sessions : session.Identifier \notin identifiers}

\* The daemon's sessions after the resumption of those with the identifiers.
Resumed(sessions, identifiers) ==
    {IF session.Identifier \in identifiers
     THEN [session EXCEPT !.Paused = FALSE] ELSE session : session \in sessions}

\* The identifiers of the daemon's sessions a label selection selects.
SelectedIdentifiers(sessions, selection) ==
    {session.Identifier : session \in {x \in sessions : Selected(x, selection)}}

\* Lines 533-540: the termination of the forwarding sessions of the prune
\* list, in one call.  A failed call may have terminated some of them.
PruneForwarding(p) ==
    /\ pass[p].pc = "pruneForwarding"
    /\ LET identifiers == Range(pass[p].forwardingPruneList) IN
       \/ /\ forwardingSessions' = Terminated(forwardingSessions, identifiers)
          /\ pass' = [pass EXCEPT ![p] = Proceed("pruneForwarding",
                        [@ EXCEPT !.calls = Append(@, Call("terminate", "forwarding", identifiers, "", TRUE, FALSE))])]
       \/ \E done \in (SUBSET identifiers) \ {identifiers} :
          /\ forwardingSessions' = Terminated(forwardingSessions, done)
          /\ pass' = [pass EXCEPT ![p] =
                        Failed(@, Call("terminate", "forwarding", identifiers, "", FALSE, FALSE),
                               "unable to prune orphaned/duplicate/stale forwarding sessions", "")]
    /\ UNCHANGED <<synchronizationSessions, nextIdentifier, Liaison>>

\* Lines 542-549: the termination of the synchronization sessions of the
\* prune list, in one call.  A failed call may have terminated some of them.
PruneSynchronization(p) ==
    /\ pass[p].pc = "pruneSynchronization"
    /\ LET identifiers == Range(pass[p].synchronizationPruneList) IN
       \/ /\ synchronizationSessions' = Terminated(synchronizationSessions, identifiers)
          /\ pass' = [pass EXCEPT ![p] = Proceed("pruneSynchronization",
                        [@ EXCEPT !.calls = Append(@, Call("terminate", "synchronization", identifiers, "", TRUE, FALSE))])]
       \/ \E done \in (SUBSET identifiers) \ {identifiers} :
          /\ synchronizationSessions' = Terminated(synchronizationSessions, done)
          /\ pass' = [pass EXCEPT ![p] =
                        Failed(@, Call("terminate", "synchronization", identifiers, "", FALSE, FALSE),
                               "unable to prune orphaned/duplicate/stale synchronization sessions", "")]
    /\ UNCHANGED <<forwardingSessions, nextIdentifier, Liaison>>

\* Lines 556-559: the resumption of the forwarding sessions of the project.
\* A failed call may have resumed some of them.
ResumeForwarding(p) ==
    /\ pass[p].pc = "resumeForwarding"
    /\ LET identifiers == SelectedIdentifiers(forwardingSessions,
                                              projectSelection(pass[p].sidecarID)) IN
       \/ /\ forwardingSessions' = Resumed(forwardingSessions, identifiers)
          /\ pass' = [pass EXCEPT ![p] = Proceed("resumeForwarding",
                        [@ EXCEPT !.calls = Append(@, Call("resume", "forwarding", {}, "", TRUE, FALSE))])]
       \/ \E done \in (SUBSET identifiers) \ {identifiers} :
          /\ forwardingSessions' = Resumed(forwardingSessions, done)
          /\ pass' = [pass EXCEPT ![p] =
                        Failed(@, Call("resume", "forwarding", {}, "", FALSE, FALSE),
                               "forwarding resumption failed", "")]
       \/ /\ identifiers = {}
          /\ forwardingSessions' = forwardingSessions
          /\ pass' = [pass EXCEPT ![p] =
                        Failed(@, Call("resume", "forwarding", {}, "", FALSE, FALSE),
                               "forwarding resumption failed", "")]
    /\ UNCHANGED <<synchronizationSessions, nextIdentifier, Liaison>>

\* Lines 560-563: the resumption of the synchronization sessions of the
\* project.  A failed call may have resumed some of them.
ResumeSynchronization(p) ==
    /\ pass[p].pc = "resumeSynchronization"
    /\ LET identifiers == SelectedIdentifiers(synchronizationSessions,
                                              projectSelection(pass[p].sidecarID)) IN
       \/ /\ synchronizationSessions' = Resumed(synchronizationSessions, identifiers)
          /\ pass' = [pass EXCEPT ![p] = Proceed("resumeSynchronization",
                        [@ EXCEPT !.calls = Append(@, Call("resume", "synchronization", {}, "", TRUE, FALSE))])]
       \/ \E done \in (SUBSET identifiers) \ {identifiers} :
          /\ synchronizationSessions' = Resumed(synchronizationSessions, done)
          /\ pass' = [pass EXCEPT ![p] =
                        Failed(@, Call("resume", "synchronization", {}, "", FALSE, FALSE),
                               "synchronization resumption failed", "")]
       \/ /\ identifiers = {}
          /\ synchronizationSessions' = synchronizationSessions
          /\ pass' = [pass EXCEPT ![p] =
                        Failed(@, Call("resume", "synchronization", {}, "", FALSE, FALSE),
                               "synchronization resumption failed", "")]
    /\ UNCHANGED <<forwardingSessions, nextIdentifier, Liaison>>

\* Lines 565-571: one turn of the loop that creates the forwarding sessions.
CreateForwarding(p) ==
    /\ pass[p].pc = "createForwarding"
    /\ nextIdentifier <= IdentifierLimit
    /\ LET i == pass[p].forwardingCreated + 1
           specification == pass[p].forwardingCreateSpecifications[i] IN
       \/ /\ forwardingSessions' = forwardingSessions \cup
                                      {ForwardingSession(nextIdentifier, specification)}
          /\ nextIdentifier' = nextIdentifier + 1
          /\ pass' = [pass EXCEPT ![p] = Proceed("createForwarding",
                        [@ EXCEPT !.forwardingCreated = i,
                                  !.calls = Append(@, Call("create", "forwarding", {nextIdentifier},
                                                           specification.Name, TRUE, FALSE))])]
       \/ /\ UNCHANGED <<forwardingSessions, nextIdentifier>>
          /\ pass' = [pass EXCEPT ![p] =
                        Failed(@, Call("create", "forwarding", {}, specification.Name, FALSE, FALSE),
                               "unable to create forwarding session", specification.Name)]
    /\ UNCHANGED <<synchronizationSessions, Liaison>>

\* Lines 573-582: one turn of the loop that creates the synchronization
\* sessions and collects their identifiers.
CreateSynchronization(p) ==
    /\ pass[p].pc = "createSynchronization"
    /\ nextIdentifier <= IdentifierLimit
    /\ LET i == pass[p].synchronizationCreated + 1
           specification == pass[p].synchronizationCreateSpecifications[i]
           newSynchronizationSessions ==
               Append(pass[p].newSynchronizationSessions, nextIdentifier) IN
       \/ /\ synchronizationSessions' = synchronizationSessions \cup
                                      {SynchronizationSession(nextIdentifier, specification)}
          /\ nextIdentifier' = nextIdentifier + 1
          /\ pass' = [pass EXCEPT ![p] = Proceed("createSynchronization",
                        [@ EXCEPT !.synchronizationCreated = i,
                                  !.newSynchronizationSessions = newSynchronizationSessions,
                                  !.calls = Append(@, Call("create", "synchronization", {nextIdentifier},
                                                           specification.Name, TRUE, FALSE))])]
       \/ /\ UNCHANGED <<synchronizationSessions, nextIdentifier>>
          /\ pass' = [pass EXCEPT ![p] =
                        Failed(@, Call("create", "synchronization", {}, specification.Name, FALSE, FALSE),
                               "unable to create synchronization session", specification.Name)]
    /\ UNCHANGED <<forwardingSessions, Liaison>>

\* Mutant: the flush does not wait for the synchronization cycle.
flushSkipWaitSet == TRUE

\* Line 588: the skipWait argument of the flush.
flushSkipWait == FALSE

\* Lines 584-594: the flush of the synchronization sessions created by the
\* pass, then the return.
Flush(p) ==
    /\ pass[p].pc = "flush"
    /\ LET identifiers == Range(pass[p].newSynchronizationSessions) IN
       \/ pass' = [pass EXCEPT ![p] = Proceed("flush",
                     [@ EXCEPT !.calls = Append(@, Call("flush", "synchronization", identifiers,
                                                        "", TRUE, flushSkipWait))])]
       \/ pass' = [pass EXCEPT ![p] =
                     Failed(@, Call("flush", "synchronization", identifiers, "", FALSE, flushSkipWait),
                            "unable to flush synchronization session(s)", "")]
    /\ UNCHANGED <<Daemon, Liaison>>

-----------------------------------------------------------------------------
(* listSessions, pauseSessions, resumeSessions and terminateSessions: each *)
(* connects to the daemon, applies its operation to the forwarding         *)
(* sessions of the project and then to its synchronization sessions.       *)

\* The four functions, and the operation each applies.
SessionsFunctions ==
    {"listSessions", "pauseSessions", "resumeSessions", "terminateSessions"}

sessionsOperation(function) ==
    CASE function = "listSessions" -> "list"
      [] function = "pauseSessions" -> "pause"
      [] function = "resumeSessions" -> "resume"
      [] function = "terminateSessions" -> "terminate"

\* The errors of the four functions, by kind of session (lines 615, 621,
\* 646, 652, 677, 683, 708 and 714).
sessionsError(function, kind) ==
    CASE function = "listSessions" ->
            IF kind = "forwarding" THEN "forwarding listing failed"
            ELSE "synchronization listing failed"
      [] function = "pauseSessions" ->
            IF kind = "forwarding" THEN "forwarding pausing failed"
            ELSE "synchronization pausing failed"
      [] function = "resumeSessions" ->
            IF kind = "forwarding" THEN "forwarding resumption failed"
            ELSE "synchronization resumption failed"
      [] function = "terminateSessions" ->
            IF kind = "forwarding" THEN "forwarding termination failed"
            ELSE "synchronization termination failed"

\* Mutant: the sessions are selected by the whole identity of the sidecar.
sessionsSelectionWhole(sidecarID) ==
    [LabelSelector |-> <<sessionSidecarLabelKey, sidecarID>>]

\* Lines 607-610, 638-641, 669-672 and 700-703: the selection of the
\* sessions owned by the sidecar.
sessionsSelection(sidecarID) ==
    [LabelSelector |-> <<sessionSidecarLabelKey, chopSidecarIdentifier(sidecarID)>>]

\* The daemon's sessions after the pausing of those with the identifiers.
Paused(sessions, identifiers) ==
    {IF session.Identifier \in identifiers
     THEN [session EXCEPT !.Paused = TRUE] ELSE session : session \in sessions}

\* The daemon's sessions after the operation of a function on those with
\* the identifiers; a listing changes none.
Applied(function, sessions, identifiers) ==
    CASE function = "listSessions" -> sessions
      [] function = "pauseSessions" -> Paused(sessions, identifiers)
      [] function = "resumeSessions" -> Resumed(sessions, identifiers)
      [] function = "terminateSessions" -> Terminated(sessions, identifiers)

\* The outcomes of the operation of a function on the sessions of a kind
\* that a selection selects: the sessions of the daemon after it and whether
\* the call succeeded.  A failed call may have reached some of the sessions.
Outcomes(function, sessions, selection) ==
    LET identifiers == SelectedIdentifiers(sessions, selection) IN
    {[ok |-> TRUE, sessions |-> Applied(function, sessions, identifiers)]}
    \cup {[ok |-> FALSE, sessions |-> Applied(function, sessions, done)] :
             done \in (SUBSET identifiers) \ {identifiers}}
    \cup {[ok |-> FALSE, sessions |-> sessions]}

\* The steps of each of the four functions, in the order of the program.
SessionsOrder ==
    <<"sessionsConnect", "sessionsForwarding", "sessionsSynchronization", "returned">>

\* The locals once the call of a step has succeeded: at the next step, or
\* returned with nil after the last one, when the deferred Close runs.
SessionsProceed(step, locals) ==
    LET next == SessionsOrder[(CHOOSE i \in 1..Len(SessionsOrder) :
                                  SessionsOrder[i] = step) + 1]
    IN  [locals EXCEPT !.pc = next,
                       !.daemonConnection = IF next = "returned" THEN "closed" ELSE @]

\* Lines 598, 630, 661 and 692: the entry of one of the four functions for
\* a sidecar identity.
CallSessions(p) ==
    /\ pass[p].pc \in {"idle", "returned"}
    /\ \E function \in SessionsFunctions, sidecarID \in SidecarIDs :
        pass' = [pass EXCEPT ![p] =
                   [IdlePass EXCEPT
                       !.pc = SessionsOrder[1],
                       !.function = function,
                       !.sidecarID = sidecarID,
                       !.previous = Outcome(pass[p])]]
    /\ UNCHANGED <<Daemon, Liaison>>

\* Lines 600-604, 632-636, 663-667 and 694-698: daemon.Connect.
SessionsConnect(p) ==
    /\ pass[p].pc = "sessionsConnect"
    /\ \/ pass' = [pass EXCEPT ![p] = SessionsProceed("sessionsConnect",
                     [@ EXCEPT !.daemonConnection = "open",
                               !.calls = Append(@, Call("connect", "", {}, "", TRUE, FALSE))])]
       \/ pass' = [pass EXCEPT ![p] =
                     [Failed(@, Call("connect", "", {}, "", FALSE, FALSE),
                             "unable to connect to Mutagen daemon", "")
                        EXCEPT !.daemonConnection = "none"]]
    /\ UNCHANGED <<Daemon, Liaison>>

\* Lines 612-616, 643-647, 674-678 and 705-709: the operation on the
\* forwarding sessions of the project.
SessionsForwarding(p) ==
    /\ pass[p].pc = "sessionsForwarding"
    /\ \E outcome \in Outcomes(pass[p].function, forwardingSessions,
                               sessionsSelection(pass[p].sidecarID)) :
        LET call == Call(sessionsOperation(pass[p].function), "forwarding", {}, "",
                         outcome.ok, FALSE)
        IN
        /\ forwardingSessions' = outcome.sessions
        /\ pass' = [pass EXCEPT ![p] =
                      IF outcome.ok
                      THEN SessionsProceed("sessionsForwarding",
                                           [@ EXCEPT !.calls = Append(@, call)])
                      ELSE Failed(@, call, sessionsError(pass[p].function, "forwarding"), "")]
    /\ UNCHANGED <<synchronizationSessions, nextIdentifier, Liaison>>

\* Lines 618-626, 649-657, 680-688 and 711-719: the operation on the
\* synchronization sessions of the project, then the return.
SessionsSynchronization(p) ==
    /\ pass[p].pc = "sessionsSynchronization"
    /\ \E outcome \in Outcomes(pass[p].function, synchronizationSessions,
                               sessionsSelection(pass[p].sidecarID)) :
        LET call == Call(sessionsOperation(pass[p].function), "synchronization", {}, "",
                         outcome.ok, FALSE)
        IN
        /\ synchronizationSessions' = outcome.sessions
        /\ pass' = [pass EXCEPT ![p] =
                      IF outcome.ok
                      THEN SessionsProceed("sessionsSynchronization",
                                           [@ EXCEPT !.calls = Append(@, call)])
                      ELSE Failed(@, call, sessionsError(pass[p].function, "synchronization"), "")]
    /\ UNCHANGED <<forwardingSessions, nextIdentifier, Liaison>>

-----------------------------------------------------------------------------
(* processProject: addresses, URLs and configurations.                     *)
(*                                                                         *)
(* An address is a sequence of tokens.  A network address is               *)
(* <<"network://", network, protocol, address>>, a volume address is       *)
(* <<"volume://", volume, path...>>, a Docker address starts with          *)
(* "docker://", a local forwarding endpoint is <<protocol, address>> and   *)
(* a local path is the sequence of its elements, "/" first when absolute.  *)

\* The name of the service injected for the sidecar.
sidecarServiceName == "mutagen"

\* The image and the labels of the sidecar service.
sidecarImage == "mutagenio/sidecar"
sidecarRoleLabelKey == "io.mutagen.compose.role"
sidecarRoleLabelValue == "sidecar"
sidecarVersionLabelKey == "io.mutagen.compose.version"
mutagenVersion == "v0"

networkURLPrefix == "network://"
volumeURLPrefix == "volume://"

\* isNetworkURL: the address has the network prefix.
isNetworkURL(raw) == Len(raw) > 0 /\ raw[1] = networkURLPrefix

\* isVolumeURL: the address has the volume prefix.
isVolumeURL(raw) == Len(raw) > 0 /\ raw[1] = volumeURLPrefix

\* isTCPForwardingProtocol: the TCP-based forwarding protocols.
isTCPForwardingProtocol(protocol) == protocol \in {"tcp", "tcp4", "tcp6"}

\* forwardingurl.Parse: the protocol and the address of a forwarding
\* endpoint; an endpoint that is not protocol and address does not parse.
forwardingurlParse(path) ==
    IF Len(path) = 2 /\ path[1] \in {"tcp", "tcp4", "tcp6", "unix", "npipe"}
    THEN [ok |-> TRUE, protocol |-> path[1], address |-> path[2]]
    ELSE [ok |-> FALSE, protocol |-> "", address |-> ""]

\* url.Parse: a Docker URL for an address with the Docker scheme, a local URL
\* otherwise; an empty address does not parse, and neither does a local
\* forwarding address that is no forwarding endpoint.
urlParse(raw, kind) ==
    IF Len(raw) = 0 THEN [ok |-> FALSE, url |-> localURL(raw)]
    ELSE IF raw[1] = "docker://"
    THEN [ok |-> Len(raw) > 2,
          url |-> [Protocol |-> "docker", Host |-> <<raw[2]>>,
                   Path |-> SubSeq(raw, 3, Len(raw)), Environment |-> ""]]
    ELSE [ok |-> kind = "forwarding" => forwardingurlParse(raw).ok,
          url |-> localURL(raw)]

\* parseNetworkURL: the placeholder URL of a TCP endpoint inside the sidecar
\* and the network through which the sidecar reaches it.
parseNetworkURL(raw) ==
    IF Len(raw) = 4 /\ raw[2] # "" /\ isTCPForwardingProtocol(raw[3])
    THEN [ok |-> TRUE, url |-> sidecarURL(<<raw[3], raw[4]>>), network |-> raw[2]]
    ELSE [ok |-> FALSE, url |-> sidecarURL(<<>>), network |-> ""]

\* mountPathForVolumeInMutagenContainer: where the sidecar mounts a volume.
mountPathForVolumeInMutagenContainer(os, volume) ==
    IF os = "windows" THEN <<"c:", "volumes", volume>> ELSE <<"/", "volumes", volume>>

\* parseVolumeURL: the placeholder URL of a path inside a volume as the
\* sidecar mounts it, and the volume.
parseVolumeURL(raw, os) ==
    IF Len(raw) >= 2 /\ raw[2] # ""
    THEN [ok |-> TRUE,
          url |-> sidecarURL(mountPathForVolumeInMutagenContainer(os, raw[2])
                                 \o SubSeq(raw, 3, Len(raw))),
          volume |-> raw[2]]
    ELSE [ok |-> FALSE, url |-> sidecarURL(<<>>), volume |-> ""]

\* filepath.IsAbs.
IsAbs(path) == Len(path) > 0 /\ path[1] = "/"

\* filepath.Abs(filepath.Join(dir, path)): the elements of both, without the
\* elements that name the current directory.
AbsJoin(dir, path) == SelectSeq(dir \o path, LAMBDA element : element # ".")

\* Lines 297-307 and 320-330: a local synchronization URL; a relative path
\* is taken relative to the working directory of the project.
localSynchronizationURL(raw, workingDir) ==
    LET parsed == urlParse(raw, "synchronization") IN
    IF ~parsed.ok THEN [ok |-> FALSE, message |-> "unable to parse", url |-> parsed.url]
    ELSE IF parsed.url.Protocol # "local"
    THEN [ok |-> FALSE, message |-> "only local and volume URLs allowed", url |-> parsed.url]
    ELSE [ok |-> TRUE, message |-> "",
          url |-> IF IsAbs(raw) THEN parsed.url
                  ELSE [parsed.url EXCEPT !.Path = AbsJoin(workingDir, raw)]]

\* selection.EnsureNameValid: a name with a space in it is no session name.
EnsureNameValid(name) == name # "not a name"

\* A configuration is a record of fields, "" for a field that is not set.
\* The fields of a forwarding configuration and of a synchronization one.
NoForwardingConfiguration == [SocketOverwriteMode |-> ""]
NoSynchronizationConfiguration == [SynchronizationMode |-> "", DefaultOwner |-> ""]

\* Configuration.EnsureValid: every field is unset or has a supported
\* value, and an endpoint-specific configuration sets no field that only
\* a session can set.
EnsureValid(configuration, endpointSpecific) ==
    /\ "SocketOverwriteMode" \in DOMAIN configuration =>
           configuration.SocketOverwriteMode \in {"", "leave", "overwrite"}
    /\ "SynchronizationMode" \in DOMAIN configuration =>
           /\ configuration.SynchronizationMode \in {"", "two-way-safe", "one-way-safe"}
           /\ endpointSpecific => configuration.SynchronizationMode = ""

\* Mutant: the fields that only the lower configuration sets are lost.
MergeConfigurationsHigherOnly(lower, higher) == higher

\* Mutant: the value of the defaults wins over the value of the session.
MergeConfigurationsLowerWins(lower, higher) ==
    [field \in DOMAIN lower |->
        IF lower[field] # "" THEN lower[field] ELSE higher[field]]

\* forwarding.MergeConfigurations and synchronization.MergeConfigurations:
\* field by field, the value of the higher configuration if it sets the
\* field, the value of the lower one otherwise.
MergeConfigurations(lower, higher) ==
    [field \in DOMAIN lower |->
        IF higher[field] # "" THEN higher[field] ELSE lower[field]]

-----------------------------------------------------------------------------
(* processProject: the sessions of the extension section. *)

\* A forwarding session of the x-mutagen section.
ForwardingSessionConfiguration(source, destination, configuration, configurationSource, configurationDestination) ==
    [Source                   |-> source,
     Destination              |-> destination,
     Configuration            |-> configuration,
     ConfigurationSource      |-> configurationSource,
     ConfigurationDestination |-> configurationDestination]

\* A synchronization session of the x-mutagen section.
SynchronizationSessionConfiguration(alpha, beta, configuration, configurationAlpha, configurationBeta) ==
    [Alpha              |-> alpha,
     Beta               |-> beta,
     Configuration      |-> configuration,
     ConfigurationAlpha |-> configurationAlpha,
     ConfigurationBeta  |-> configurationBeta]

\* The outcome of a step that returns an error.
Invalid(message) == [ok |-> FALSE, message |-> message]

\* Mutant: a project without an x-mutagen section is an error.
DecodedRequired(extensions) ==
    IF "x-mutagen" \notin DOMAIN extensions
    THEN Invalid("unable to decode x-mutagen section")
    ELSE LET xMutagen == extensions["x-mutagen"] IN
         IF ~(DOMAIN xMutagen \subseteq {"forwarding", "sync"})
         THEN Invalid("unable to decode x-mutagen section")
         ELSE [ok |-> TRUE,
               Forwarding |-> IF "forwarding" \in DOMAIN xMutagen
                              THEN xMutagen["forwarding"] ELSE EmptyMap,
               Synchronization |-> IF "sync" \in DOMAIN xMutagen
                                   THEN xMutagen["sync"] ELSE EmptyMap]

\* Lines 111-126: the decoded x-mutagen section, empty when the project has
\* none; a key of the section that is no field of the configuration is an
\* error (ErrorUnused).
Decoded(extensions) ==
    IF "x-mutagen" \notin DOMAIN extensions
    THEN [ok |-> TRUE, Forwarding |-> EmptyMap, Synchronization |-> EmptyMap]
    ELSE LET xMutagen == extensions["x-mutagen"] IN
         IF ~(DOMAIN xMutagen \subseteq {"forwarding", "sync"})
         THEN Invalid("unable to decode x-mutagen section")
         ELSE [ok |-> TRUE,
               Forwarding |-> IF "forwarding" \in DOMAIN xMutagen
                              THEN xMutagen["forwarding"] ELSE EmptyMap,
               Synchronization |-> IF "sync" \in DOMAIN xMutagen
                                   THEN xMutagen["sync"] ELSE EmptyMap]

\* Lines 129-151: the default forwarding configurations.
forwardingDefaults(sessions) ==
    IF "defaults" \notin DOMAIN sessions
    THEN [ok |-> TRUE,
          Configuration            |-> NoForwardingConfiguration,
          ConfigurationSource      |-> NoForwardingConfiguration,
          ConfigurationDestination |-> NoForwardingConfiguration]
    ELSE LET defaults == sessions["defaults"] IN
         IF defaults.Source # <<>>
         THEN Invalid("source URL not allowed in default forwarding configuration")
         ELSE IF defaults.Destination # <<>>
         THEN Invalid("destination URL not allowed in default forwarding configuration")
         ELSE IF ~EnsureValid(defaults.Configuration, FALSE)
         THEN Invalid("invalid default forwarding configuration")
         ELSE IF ~EnsureValid(defaults.ConfigurationSource, TRUE)
         THEN Invalid("invalid default forwarding source configuration")
         ELSE IF ~EnsureValid(defaults.ConfigurationDestination, TRUE)
         THEN Invalid("invalid default forwarding destination configuration")
         ELSE [ok |-> TRUE,
               Configuration            |-> defaults.Configuration,
               ConfigurationSource      |-> defaults.ConfigurationSource,
               ConfigurationDestination |-> defaults.ConfigurationDestination]

\* Lines 154-176: the default synchronization configurations.
synchronizationDefaults(sessions) ==
    IF "defaults" \notin DOMAIN sessions
    THEN [ok |-> TRUE,
          Configuration      |-> NoSynchronizationConfiguration,
          ConfigurationAlpha |-> NoSynchronizationConfiguration,
          ConfigurationBeta  |-> NoSynchronizationConfiguration]
    ELSE LET defaults == sessions["defaults"] IN
         IF defaults.Alpha # <<>>
         THEN Invalid("alpha URL not allowed in default synchronization configuration")
         ELSE IF defaults.Beta # <<>>
         THEN Invalid("beta URL not allowed in default synchronization configuration")
         ELSE IF ~EnsureValid(defaults.Configuration, FALSE)
         THEN Invalid("invalid default synchronization configuration")
         ELSE IF ~EnsureValid(defaults.ConfigurationAlpha, TRUE)
         THEN Invalid("invalid default synchronization alpha configuration")
         ELSE IF ~EnsureValid(defaults.ConfigurationBeta, TRUE)
         THEN Invalid("invalid default synchronization beta configuration")
         ELSE [ok |-> TRUE,
               Configuration      |-> defaults.Configuration,
               ConfigurationAlpha |-> defaults.ConfigurationAlpha,
               ConfigurationBeta  |-> defaults.ConfigurationBeta]

\* Mutant: the defaults entry stays among the sessions.
WithoutDefaultsKept(sessions) == sessions

\* Lines 150 and 175: the sessions without the defaults entry.
WithoutDefaults(sessions) ==
    [name \in DOMAIN sessions \ {"defaults"} |-> sessions[name]]

\* Mutant: a forwarding source of any protocol is accepted.
forwardingSourceUnsupportedNever(protocol) == FALSE

\* Line 210: the protocol of the forwarding source is not TCP-based.
forwardingSourceUnsupported(protocol) == ~isTCPForwardingProtocol(protocol)

\* Lines 183-256: the creation specification of one forwarding session and
\* the network it depends on, or the error of its validation.
forwardingSpecification(name, session, defaults) ==
    LET source == urlParse(session.Source, "forwarding")
        destination == parseNetworkURL(session.Destination)
    IN
    IF ~EnsureNameValid(name)
    THEN Invalid("invalid forwarding session name")
    ELSE IF isNetworkURL(session.Source)
    THEN Invalid("network URL not allowed as forwarding source")
    ELSE IF ~source.ok
    THEN Invalid("unable to parse forwarding source URL")
    ELSE IF source.url.Protocol # "local"
    THEN Invalid("only local URLs allowed as forwarding sources")
    ELSE IF forwardingSourceUnsupported(forwardingurlParse(source.url.Path).protocol)
    THEN Invalid("non-TCP-based forwarding endpoint unsupported")
    ELSE IF ~isNetworkURL(session.Destination)
    THEN Invalid("forwarding destination should be a network URL")
    ELSE IF ~destination.ok
    THEN Invalid("unable to parse forwarding destination URL")
    ELSE IF ~EnsureValid(session.Configuration, FALSE)
    THEN Invalid("invalid forwarding session configuration")
    ELSE IF ~EnsureValid(session.ConfigurationSource, TRUE)
    THEN Invalid("invalid forwarding session source configuration")
    ELSE IF ~EnsureValid(session.ConfigurationDestination, TRUE)
    THEN Invalid("invalid forwarding session destination configuration")
    ELSE [ok |-> TRUE,
          network |-> destination.network,
          specification |->
              [Source                   |-> source.url,
               Destination              |-> destination.url,
               Configuration            |->
                   MergeConfigurations(defaults.Configuration, session.Configuration),
               ConfigurationSource      |->
                   MergeConfigurations(defaults.ConfigurationSource,
                                       session.ConfigurationSource),
               ConfigurationDestination |->
                   MergeConfigurations(defaults.ConfigurationDestination,
                                       session.ConfigurationDestination),
               Name                     |-> name,
               Labels                   |-> NoLabels]]

\* Mutant: a session with two volume endpoints is accepted.
bothVolumesAllowed(alphaIsVolume, betaIsVolume) == FALSE

\* Line 280: both endpoints reference volumes.
bothVolumes(alphaIsVolume, betaIsVolume) == alphaIsVolume /\ betaIsVolume

\* Lines 288-308 and 311-331: the URL of one endpoint of a synchronization
\* session and the set of the volumes it references.
synchronizationEndpoint(raw, isVolume, os, workingDir) ==
    IF isVolume
    THEN LET parsed == parseVolumeURL(raw, os) IN
         IF ~parsed.ok THEN Invalid("unable to parse")
         ELSE [ok |-> TRUE, url |-> parsed.url, volumes |-> {parsed.volume}]
    ELSE LET parsed == localSynchronizationURL(raw, workingDir) IN
         IF ~parsed.ok THEN Invalid(parsed.message)
         ELSE [ok |-> TRUE, url |-> parsed.url, volumes |-> {}]

\* Lines 264-362: the creation specification of one synchronization session
\* and the volumes it depends on, or the error of its validation.
synchronizationSpecification(name, session, defaults, os, workingDir) ==
    LET alphaIsVolume == isVolumeURL(session.Alpha)
        betaIsVolume == isVolumeURL(session.Beta)
        alpha == synchronizationEndpoint(session.Alpha, alphaIsVolume, os, workingDir)
        beta == synchronizationEndpoint(session.Beta, betaIsVolume, os, workingDir)
    IN
    IF ~EnsureNameValid(name)
    THEN Invalid("invalid synchronization session name")
    ELSE IF ~(alphaIsVolume \/ betaIsVolume)
    THEN Invalid("neither alpha nor beta references a volume in synchronization session")
    ELSE IF bothVolumes(alphaIsVolume, betaIsVolume)
    THEN Invalid("both alpha and beta reference volumes in synchronization session")
    ELSE IF ~alpha.ok
    THEN Invalid("unable to parse synchronization alpha URL")
    ELSE IF ~beta.ok
    THEN Invalid("unable to parse synchronization beta URL")
    ELSE IF ~EnsureValid(session.Configuration, FALSE)
    THEN Invalid("invalid synchronization session configuration")
    ELSE IF ~EnsureValid(session.ConfigurationAlpha, TRUE)
    THEN Invalid("invalid synchronization session alpha configuration")
    ELSE IF ~EnsureValid(session.ConfigurationBeta, TRUE)
    THEN Invalid("invalid synchronization session beta configuration")
    ELSE [ok |-> TRUE,
          volumes |-> alpha.volumes \cup beta.volumes,
          specification |->
              [Alpha              |-> alpha.url,
               Beta               |-> beta.url,
               Configuration      |->
                   MergeConfigurations(defaults.Configuration, session.Configuration),
               ConfigurationAlpha |->
                   MergeConfigurations(defaults.ConfigurationAlpha,
                                       session.ConfigurationAlpha),
               ConfigurationBeta  |->
                   MergeConfigurations(defaults.ConfigurationBeta,
                                       session.ConfigurationBeta),
               Name               |-> name,
               Labels             |-> NoLabels]]

-----------------------------------------------------------------------------
(* processProject: the project and the steps of the call. *)

\* A volume of a service.
ServiceVolumeConfig(type, source, target) ==
    [Type |-> type, Source |-> source, Target |-> target]

\* A service of the project.
ServiceConfig(name, image, labels, networks, volumes, dependsOn) ==
    [Name      |-> name,
     Image     |-> image,
     Labels    |-> labels,
     Networks  |-> networks,
     Volumes   |-> volumes,
     DependsOn |-> dependsOn]

\* A project: its services in order, the services that are disabled, the
\* names of the networks and of the volumes declared at its root, its
\* extensions and its working directory.
Project(services, networks, volumes, extensions) ==
    [nil              |-> FALSE,
     Services         |-> services,
     DisabledServices |-> <<>>,
     Networks         |-> networks,
     Volumes          |-> volumes,
     Extensions       |-> extensions,
     WorkingDir       |-> <<"/", "project">>]

\* The nil project.
NilProject == [Project(<<>>, {}, {}, EmptyMap) EXCEPT !.nil = TRUE]

\* The condition of the dependency on the sidecar.
ServiceConditionStarted == "service_started"

\* The locals of a call of a function of composeService that has not
\* started.  services and disabledServices are the cached service lists;
\* processed is the number of calls of processProject that had returned
\* when the function was entered; after is the service lists of the project
\* when processProject returned nil; calls is the calls of the underlying
\* Compose service, of the Docker client and of listSessions that have
\* returned, each with the service lists of the project at the call.
IdleCompose ==
    [pc               |-> "idle",
     function         |-> "",
     nilProject       |-> FALSE,
     processed        |-> 0,
     services         |-> <<>>,
     disabledServices |-> <<>>,
     after            |-> [set |-> FALSE, Services |-> <<>>, DisabledServices |-> <<>>],
     calls            |-> <<>>,
     err              |-> ""]

\* The locals of a call of processProject that has not started.  descriptor
\* is the project as its file declares it; before is the project and the
\* stored specifications when the call started; first is what the first
\* call that returned nil stored.
IdleBuild(descriptor) ==
    [pc                            |-> "idle",
     calls                         |-> 0,
     err                           |-> "",
     interactions                  |-> <<>>,
     descriptor                    |-> descriptor,
     before                        |-> [project |-> descriptor,
                                        forwarding |-> EmptyMap,
                                        synchronization |-> EmptyMap],
     first                         |-> [stored |-> FALSE,
                                        forwarding |-> EmptyMap,
                                        synchronization |-> EmptyMap],
     osType                        |-> "",
     sessions                      |-> [Forwarding |-> EmptyMap,
                                        Synchronization |-> EmptyMap],
     defaultsForwarding            |-> forwardingDefaults(EmptyMap),
     defaultsSynchronization       |-> synchronizationDefaults(EmptyMap),
     forwardingSpecifications      |-> EmptyMap,
     networkDependencies           |-> {},
     synchronizationSpecifications |-> EmptyMap,
     volumeDependencies            |-> {}]

\* A return of an error.
BuildFailed(locals, message) ==
    [locals EXCEPT !.pc = "returned", !.err = message, !.calls = @ + 1]

\* Mutant: the daemon metadata is queried before the names of the services
\* are checked.
BuildOrderMetadataFirst ==
    <<"metadata", "names", "decode", "defaults", "forwarding", "synchronization",
      "dependencies", "service", "returned">>

\* Mutant: the sidecar service is added before the dependencies are validated.
BuildOrderServiceFirst ==
    <<"names", "metadata", "decode", "defaults", "forwarding", "synchronization",
      "service", "dependencies", "returned">>

\* Lines 91-424: the steps of processProject in the order of the program.
BuildOrder ==
    <<"names", "metadata", "decode", "defaults", "forwarding", "synchronization",
      "dependencies", "service", "returned">>

\* The step that follows a step.
BuildAfter(step) ==
    BuildOrder[(CHOOSE i \in 1..Len(BuildOrder) : BuildOrder[i] = step) + 1]

\* The locals after a step that did not fail: at the next step, or returned
\* with nil after the last one.
BuildProceed(step, locals) ==
    IF BuildAfter(step) = "returned"
    THEN [locals EXCEPT !.pc = "returned", !.calls = @ + 1]
    ELSE [locals EXCEPT !.pc = BuildAfter(step)]

\* The number of calls of processProject in a behaviour.
MaxCalls == 2

Builder == <<forwarding, synchronization>>
Reconciler == <<forwardingSessions, synchronizationSessions, nextIdentifier, pass>>

\* Mutant: the nil project is processed like any other.
nothingToProcessNever(argument) == FALSE

\* Line 87: the project is nil, there is nothing to process.
nothingToProcess(argument) == argument.nil

\* Lines 82-89: the call, on the project as it is, on the project loaded
\* anew from its file or on no project (nil); there is nothing to process
\* for the nil project, and the project in memory stays as it is.
ProcessProject ==
    /\ build.pc \in {"idle", "returned"}
    /\ build.calls < MaxCalls
    /\ \E argument \in {project, build.descriptor, NilProject} :
        LET started == [IdleBuild(build.descriptor) EXCEPT
                            !.calls = build.calls,
                            !.first = build.first,
                            !.before = [project |-> argument,
                                        forwarding |-> forwarding,
                                        synchronization |-> synchronization]]
        IN
        /\ project' = IF argument.nil THEN project ELSE argument
        /\ build' = IF nothingToProcess(argument)
                    THEN [started EXCEPT !.pc = "returned", !.calls = @ + 1]
                    ELSE [started EXCEPT !.pc = BuildOrder[1]]
    /\ UNCHANGED <<daemonOSType, Builder, Reconciler, compose>>

\* Mutant: no name of a service conflicts with the name of the sidecar service.
serviceNameConflictNever(services) == FALSE

\* Lines 92-93: a service has the name of the sidecar service.
serviceNameConflict(services) ==
    \E s \in 1..Len(services) : services[s].Name = sidecarServiceName

\* Lines 91-96: the check for a conflict of service names.
CheckServiceNames ==
    /\ build.pc = "names"
    /\ build' = IF serviceNameConflict(project.Services)
                THEN BuildFailed(build,
                         "Mutagen sidecar service name conflicts with existing service")
                ELSE BuildProceed("names", build)
    /\ UNCHANGED <<project, daemonOSType, Builder, Reconciler, compose>>

\* Lines 98-102: the query of the metadata of the Docker daemon.
QueryDaemonMetadata ==
    /\ build.pc = "metadata"
    /\ \/ build' = BuildProceed("metadata",
                     [build EXCEPT !.osType = daemonOSType,
                                   !.interactions = Append(@, "Info")])
       \/ build' = BuildFailed([build EXCEPT !.interactions = Append(@, "Info")],
                               "unable to query daemon metadata")
    /\ UNCHANGED <<project, daemonOSType, Builder, Reconciler, compose>>

\* Lines 104-126: the decoding of the x-mutagen section.
DecodeExtension ==
    /\ build.pc = "decode"
    /\ LET decoded == Decoded(project.Extensions) IN
       build' = IF ~decoded.ok THEN BuildFailed(build, decoded.message)
                ELSE BuildProceed("decode",
                         [build EXCEPT !.sessions =
                             [Forwarding |-> decoded.Forwarding,
                              Synchronization |-> decoded.Synchronization]])
    /\ UNCHANGED <<project, daemonOSType, Builder, Reconciler, compose>>

\* Lines 128-176: the defaults of both kinds, taken out of the sessions.
ExtractDefaults ==
    /\ build.pc = "defaults"
    /\ LET defaultsForwarding == forwardingDefaults(build.sessions.Forwarding)
           defaultsSynchronization == synchronizationDefaults(build.sessions.Synchronization)
       IN
       build' = IF ~defaultsForwarding.ok
                THEN BuildFailed(build, defaultsForwarding.message)
                ELSE IF ~defaultsSynchronization.ok
                THEN BuildFailed(build, defaultsSynchronization.message)
                ELSE BuildProceed("defaults", [build EXCEPT
                         !.defaultsForwarding = defaultsForwarding,
                         !.defaultsSynchronization = defaultsSynchronization,
                         !.sessions = [Forwarding |-> WithoutDefaults(@.Forwarding),
                                       Synchronization |-> WithoutDefaults(@.Synchronization)]])
    /\ UNCHANGED <<project, daemonOSType, Builder, Reconciler, compose>>

\* Lines 178-257: the forwarding sessions, in the order of the map; the
\* first session that is not valid ends the call.
ConvertForwarding ==
    /\ build.pc = "forwarding"
    /\ LET sessions == build.sessions.Forwarding
           converted == [name \in DOMAIN sessions |->
                            forwardingSpecification(name, sessions[name],
                                                    build.defaultsForwarding)]
           invalid == {name \in DOMAIN sessions : ~converted[name].ok}
       IN
       IF invalid # {}
       THEN \E name \in invalid : build' = BuildFailed(build, converted[name].message)
       ELSE build' = BuildProceed("forwarding", [build EXCEPT
                         !.forwardingSpecifications =
                             [name \in DOMAIN sessions |-> converted[name].specification],
                         !.networkDependencies =
                             {converted[name].network : name \in DOMAIN sessions}])
    /\ UNCHANGED <<project, daemonOSType, Builder, Reconciler, compose>>

\* Lines 259-363: the synchronization sessions, in the order of the map; the
\* first session that is not valid ends the call.
ConvertSynchronization ==
    /\ build.pc = "synchronization"
    /\ LET sessions == build.sessions.Synchronization
           converted == [name \in DOMAIN sessions |->
                            synchronizationSpecification(name, sessions[name],
                                                         build.defaultsSynchronization,
                                                         build.osType, project.WorkingDir)]
           invalid == {name \in DOMAIN sessions : ~converted[name].ok}
       IN
       IF invalid # {}
       THEN \E name \in invalid : build' = BuildFailed(build, converted[name].message)
       ELSE build' = BuildProceed("synchronization", [build EXCEPT
                         !.synchronizationSpecifications =
                             [name \in DOMAIN sessions |-> converted[name].specification],
                         !.volumeDependencies =
                             UNION {converted[name].volumes : name \in DOMAIN sessions}])
    /\ UNCHANGED <<project, daemonOSType, Builder, Reconciler, compose>>

\* Mutant: a network or volume that the project does not declare is accepted.
undefinedDependenciesNone(dependencies, declared) == {}

\* Lines 367 and 372: the dependencies that the project does not declare.
undefinedDependencies(dependencies, declared) == dependencies \ declared

\* Lines 365-375: every network and every volume the sessions depend on is
\* declared by the project.
ValidateDependencies ==
    /\ build.pc = "dependencies"
    /\ build' =
          IF undefinedDependencies(build.networkDependencies, project.Networks) # {}
          THEN BuildFailed(build, "undefined network referenced by forwarding session")
          ELSE IF undefinedDependencies(build.volumeDependencies, project.Volumes) # {}
          THEN BuildFailed(build, "undefined volume referenced by synchronization session")
          ELSE BuildProceed("dependencies", build)
    /\ UNCHANGED <<project, daemonOSType, Builder, Reconciler, compose>>

\* Mutant: no service depends on the sidecar.
mountsDependencyNever(service, volumeDependencies) == FALSE

\* Mutant: a mount of any type counts, as soon as its source has the name of
\* a volume that a session targets.
mountsDependencyOfAnyType(service, volumeDependencies) ==
    \E v \in 1..Len(service.Volumes) :
        service.Volumes[v].Source \in volumeDependencies

\* Lines 382-383: the service mounts a volume that a session targets.
mountsDependency(service, volumeDependencies) ==
    \E v \in 1..Len(service.Volumes) :
        /\ service.Volumes[v].Type = "volume"
        /\ service.Volumes[v].Source \in volumeDependencies

\* Mutant: a service that depends on the sidecar depends on nothing else.
withSidecarDependenciesOnly(services, volumeDependencies) ==
    [s \in 1..Len(services) |->
        IF mountsDependency(services[s], volumeDependencies)
        THEN [services[s] EXCEPT
                 !.DependsOn = (sidecarServiceName :> ServiceConditionStarted)]
        ELSE services[s]]

\* Lines 381-393: the services, each with a dependency on the sidecar when
\* it mounts a volume that a session targets.
withSidecarDependencies(services, volumeDependencies) ==
    [s \in 1..Len(services) |->
        IF mountsDependency(services[s], volumeDependencies)
        THEN [services[s] EXCEPT
                 !.DependsOn = (sidecarServiceName :> ServiceConditionStarted) @@ @]
        ELSE services[s]]

\* Lines 406-416: the definition of the sidecar service.
sidecarService(networkDependencies, serviceVolumeDependencies) ==
    ServiceConfig(sidecarServiceName, sidecarImage,
                  (sidecarRoleLabelKey :> sidecarRoleLabelValue)
                      @@ (sidecarVersionLabelKey :> mutagenVersion),
                  networkDependencies, serviceVolumeDependencies, EmptyMap)

\* Lines 377-424: the dependencies on the sidecar, the sidecar service with
\* the networks and the volumes (in the order of the map) of the sessions,
\* the specifications stored in the liaison, and the return of nil.
AddService ==
    /\ build.pc = "service"
    /\ \E order \in Orders(build.volumeDependencies) :
        LET serviceVolumeDependencies ==
                [i \in 1..Len(order) |->
                    ServiceVolumeConfig("volume", order[i],
                        mountPathForVolumeInMutagenContainer(build.osType, order[i]))]
        IN
        project' = [project EXCEPT !.Services =
                       Append(withSidecarDependencies(@, build.volumeDependencies),
                              sidecarService(build.networkDependencies,
                                             serviceVolumeDependencies))]
    /\ forwarding' = build.forwardingSpecifications
    /\ synchronization' = build.synchronizationSpecifications
    /\ build' = BuildProceed("service", [build EXCEPT
                    !.first = IF @.stored THEN @
                              ELSE [stored |-> TRUE,
                                    forwarding |-> build.forwardingSpecifications,
                                    synchronization |-> build.synchronizationSpecifications]])
    /\ UNCHANGED <<daemonOSType, Reconciler, compose>>

-----------------------------------------------------------------------------
(* processProject: the projects of the model and the specification. *)

\* The addresses of the sessions of the model.
LocalTCP == <<"tcp", "localhost:8080">>
NetworkBackend == <<networkURLPrefix, "backend", "tcp", "web:80">>
NetworkFrontend == <<networkURLPrefix, "frontend", "tcp", "api:80">>
VolumeCache == <<volumeURLPrefix, "cache">>
RelativePath == <<".", "app">>

\* The sources of a forwarding session: a local TCP endpoint, a network
\* address, a Docker address, a local Unix socket, and no endpoint at all.
ForwardingSources ==
    {LocalTCP, NetworkBackend, <<"docker://", "container", "tcp", "web:80">>,
     <<"unix", "/run/app.sock">>, <<"nowhere">>}

\* The destinations of a forwarding session: two networks, a local
\* endpoint, and a network address with a Unix socket.
ForwardingDestinations ==
    {NetworkBackend, NetworkFrontend, <<"tcp", "localhost:9090">>,
     <<networkURLPrefix, "backend", "unix", "/run/web.sock">>}

\* The alpha endpoints of a synchronization session whose beta is a volume.
SynchronizationAlphas ==
    {RelativePath, <<"/", "srv", "app">>, VolumeCache, <<"docker://", "container", "srv">>}

\* The beta endpoints of a synchronization session whose alpha is local.
SynchronizationBetas ==
    {VolumeCache, <<volumeURLPrefix, "logs", "nginx">>, <<volumeURLPrefix, "ghost">>,
     <<".", "other">>, <<volumeURLPrefix, "">>}

\* A forwarding session with no configuration of its own.
PlainForwarding(source, destination) ==
    ForwardingSessionConfiguration(source, destination, NoForwardingConfiguration,
                                   NoForwardingConfiguration, NoForwardingConfiguration)

\* A synchronization session with no configuration of its own.
PlainSynchronization(alpha, beta) ==
    SynchronizationSessionConfiguration(alpha, beta, NoSynchronizationConfiguration,
                                        NoSynchronizationConfiguration,
                                        NoSynchronizationConfiguration)

\* The forwarding sections every synchronization section is combined with.
BasicForwardingSections ==
    {EmptyMap, "web" :> PlainForwarding(LocalTCP, NetworkBackend)}

\* The forwarding sections of the model: the sources, the destinations of a
\* second session, a name that is not valid, and the values of one field in
\* the defaults and in the session, one value per layer.
ForwardingSections ==
    BasicForwardingSections
    \cup {"web" :> PlainForwarding(source, NetworkBackend) : source \in ForwardingSources}
    \cup {("web" :> PlainForwarding(LocalTCP, NetworkBackend))
              @@ ("api" :> PlainForwarding(LocalTCP, destination)) :
              destination \in ForwardingDestinations}
    \cup {"not a name" :> PlainForwarding(LocalTCP, NetworkBackend)}
    \cup {"defaults" :> PlainForwarding(LocalTCP, <<>>),
          "defaults" :> PlainForwarding(<<>>, NetworkFrontend)}
    \cup {("defaults" :> ForwardingSessionConfiguration(<<>>, <<>>,
                             [SocketOverwriteMode |-> wide], NoForwardingConfiguration,
                             [SocketOverwriteMode |-> role]))
              @@ ("web" :> ForwardingSessionConfiguration(LocalTCP, NetworkBackend,
                               [SocketOverwriteMode |-> session], NoForwardingConfiguration,
                               NoForwardingConfiguration)) :
              wide \in {"", "leave"}, role \in {"", "overwrite"},
              session \in {"", "overwrite", "unsupported"}}

\* The synchronization sections every forwarding section is combined with.
BasicSynchronizationSections ==
    {EmptyMap, "data" :> PlainSynchronization(RelativePath, VolumeCache)}

\* The owners set by the layers of a synchronization session: "" for a
\* layer that sets none, and one value per layer otherwise.
OwnerLayers ==
    [wide : {"", "id:1"}, role : {"", "id:2"}, session : {"", "id:3"},
     sessionRole : {"", "id:4"}]

\* The synchronization sections of the model: the endpoints, a second
\* session with a volume on either side, the values of a field in each of
\* the four configurations that reach alpha, and a synchronization mode set
\* for a session and for an endpoint.
SynchronizationSections ==
    BasicSynchronizationSections
    \cup {"data" :> PlainSynchronization(alpha, VolumeCache) : alpha \in SynchronizationAlphas}
    \cup {("data" :> PlainSynchronization(RelativePath, VolumeCache))
              @@ ("logs" :> PlainSynchronization(<<"/", "var", "log">>, beta)) :
              beta \in SynchronizationBetas}
    \cup {("data" :> PlainSynchronization(RelativePath, VolumeCache))
              @@ ("logs" :> PlainSynchronization(<<volumeURLPrefix, "logs">>,
                                                 <<".", "logs">>))}
    \cup {"defaults" :> PlainSynchronization(<<>>, VolumeCache),
          "defaults" :> PlainSynchronization(RelativePath, <<>>)}
    \cup {("defaults" :> SynchronizationSessionConfiguration(<<>>, <<>>,
                             [NoSynchronizationConfiguration EXCEPT !.DefaultOwner = l.wide],
                             [NoSynchronizationConfiguration EXCEPT !.DefaultOwner = l.role],
                             NoSynchronizationConfiguration))
              @@ ("data" :> SynchronizationSessionConfiguration(RelativePath, VolumeCache,
                                [NoSynchronizationConfiguration EXCEPT
                                    !.DefaultOwner = l.session],
                                [NoSynchronizationConfiguration EXCEPT
                                    !.DefaultOwner = l.sessionRole],
                                NoSynchronizationConfiguration)) :
              l \in OwnerLayers}
    \cup {"data" :> SynchronizationSessionConfiguration(RelativePath, VolumeCache,
                        [NoSynchronizationConfiguration EXCEPT !.SynchronizationMode = mode],
                        [NoSynchronizationConfiguration EXCEPT !.SynchronizationMode = endpoint],
                        NoSynchronizationConfiguration) :
              mode \in {"one-way-safe", "unsupported"}, endpoint \in {"", "two-way-safe"}}

\* The x-mutagen sections of the model: every forwarding section with a
\* basic synchronization section and the other way round, and a section
\* with a key that is no field of the configuration.
ExtensionSections ==
    {("forwarding" :> f) @@ ("sync" :> s) :
        f \in ForwardingSections, s \in BasicSynchronizationSections}
    \cup {("forwarding" :> f) @@ ("sync" :> s) :
        f \in BasicForwardingSections, s \in SynchronizationSections}
    \cup {"sync" :> s : s \in BasicSynchronizationSections}
    \cup {"forwards" :> f : f \in BasicForwardingSections}

\* The services of the model: one that mounts the volume cache, one that
\* binds a directory named like it and on which the first depends, and one with
\* the name of the sidecar service.
ApplicationService ==
    ServiceConfig("app", "app", EmptyMap, {"backend"},
                  <<ServiceVolumeConfig("bind", "/srv", "/srv"),
                    ServiceVolumeConfig("volume", "cache", "/cache")>>,
                  "db" :> "service_healthy")
DatabaseService ==
    ServiceConfig("db", "db", EmptyMap, {},
                  <<ServiceVolumeConfig("bind", "cache", "/cache")>>, EmptyMap)
ConflictingService ==
    ServiceConfig(sidecarServiceName, "other", EmptyMap, {}, <<>>, EmptyMap)

ServiceLists ==
    {<<ApplicationService, DatabaseService>>, <<DatabaseService>>,
     <<ApplicationService, ConflictingService>>}

\* The networks and the volumes a project declares.
Declarations ==
    {[Networks |-> {"backend", "frontend"}, Volumes |-> {"cache", "logs"}],
     [Networks |-> {"backend"}, Volumes |-> {"cache"}]}

\* The projects of the model.
Projects ==
    {NilProject}
    \cup {Project(services, declared.Networks, declared.Volumes, EmptyMap) :
             services \in ServiceLists, declared \in Declarations}
    \cup {Project(services, declared.Networks, declared.Volumes, "x-mutagen" :> section) :
             services \in ServiceLists, declared \in Declarations,
             section \in ExtensionSections}

\* The liaison before its first call of processProject, and a daemon that
\* holds no session.
BuildInit ==
    /\ project \in Projects
    /\ daemonOSType \in {"linux", "windows"}
    /\ build = IdleBuild(project)
    /\ forwarding = EmptyMap
    /\ synchronization = EmptyMap
    /\ forwardingSessions = {}
    /\ synchronizationSessions = {}
    /\ nextIdentifier = 1
    /\ pass = [p \in Procs |-> IdlePass]
    /\ compose = IdleCompose

BuildNext ==
    \/ ProcessProject
    \/ CheckServiceNames
    \/ QueryDaemonMetadata
    \/ DecodeExtension
    \/ ExtractDefaults
    \/ ConvertForwarding
    \/ ConvertSynchronization
    \/ ValidateDependencies
    \/ AddService

BuildSpec == BuildInit /\ [][BuildNext]_vars

-----------------------------------------------------------------------------
(* The initial states and the specification. *)

\* The sessions an earlier pass may have left under the label of the sidecar:
\* of either kind, of either name, created from the specification of today
\* (variant 0) or from an older one (variant 1: another destination network
\* for a forwarding session, another synchronization mode for a
\* synchronization session), and paused since (pauseSessions pauses all the
\* sessions of the project).  A content is a number: kind, name and variant.
ExistingKinds == <<"forwarding", "synchronization">>
ExistingNames == <<"web", "data">>
ExistingContents == 0..(2 * Len(ExistingKinds) * Len(ExistingNames) - 1)

ExistingKind(c) == ExistingKinds[(c \div (2 * Len(ExistingNames))) + 1]
ExistingName(c) == ExistingNames[((c \div 2) % Len(ExistingNames)) + 1]
ExistingVariant(c) == c % 2

\* The specification an existing session of content c was created from.
ExistingSpecification(c) ==
    IF ExistingKind(c) = "forwarding"
    THEN ForwardingCreationSpecification(
             ExistingName(c),
             IF ExistingVariant(c) = 0 THEN "backend" ELSE "frontend", "")
    ELSE SynchronizationCreationSpecification(
             ExistingName(c), "cache",
             IF ExistingVariant(c) = 0 THEN "" ELSE "one-way-safe")

Init ==
    \E n \in 0..MaxExisting, sidecarID \in SidecarIDs :
    \E contents \in [1..n -> ExistingContents] :
    \E forwardingNames \in SUBSET Names, synchronizationNames \in SUBSET Names :
        /\ \A i \in 1..n : \A j \in 1..n : i < j => contents[i] <= contents[j]
        /\ forwarding = [name \in forwardingNames |->
                            ForwardingCreationSpecification(name, "backend", "")]
        /\ synchronization = [name \in synchronizationNames |->
                                 SynchronizationCreationSpecification(name, "cache", "")]
        /\ forwardingSessions =
              {[ForwardingSession(i, ReifyForwarding(ExistingSpecification(contents[i]), sidecarID))
                  EXCEPT !.Paused = TRUE] :
                  i \in {j \in 1..n : ExistingKind(contents[j]) = "forwarding"}}
        /\ synchronizationSessions =
              {[SynchronizationSession(i, ReifySynchronization(ExistingSpecification(contents[i]), sidecarID))
                  EXCEPT !.Paused = TRUE] :
                  i \in {j \in 1..n : ExistingKind(contents[j]) = "synchronization"}}
        /\ nextIdentifier = n + 1
        /\ pass = [p \in Procs |-> IdlePass]
        /\ compose = IdleCompose
        /\ project = NilProject
        /\ daemonOSType = "linux"
        /\ build = IdleBuild(NilProject)

Step(p) ==
    \/ Reify(p)
    \/ Connect(p)
    \/ ListForwarding(p)
    \/ ListSynchronization(p)
    \/ PruneForwarding(p)
    \/ PruneSynchronization(p)
    \/ ResumeForwarding(p)
    \/ ResumeSynchronization(p)
    \/ CreateForwarding(p)
    \/ CreateSynchronization(p)
    \/ Flush(p)

Next == (\E p \in Procs : Step(p)) /\ UNCHANGED <<project, daemonOSType, build, compose>>

Spec == Init /\ [][Next]_vars

-----------------------------------------------------------------------------
(* The four functions on the sessions of the project, and passes of        *)
(* reconcileSessions between them (specification ControlSpec).             *)

\* The identity of the sidecar of another project.
OtherSidecarID == <<"d", "1", "a", "b">>

\* The sessions of the other project that the daemon holds: a paused
\* forwarding session and a running synchronization session, with the names
\* of sessions of this project.
OtherForwardingSession ==
    [ForwardingSession(1, ReifyForwarding(
         ForwardingCreationSpecification("web", "backend", ""), OtherSidecarID))
        EXCEPT !.Paused = TRUE]
OtherSynchronizationSession ==
    SynchronizationSession(2, ReifySynchronization(
        SynchronizationCreationSpecification("data", "cache", ""), OtherSidecarID))

\* The sessions of this project that an earlier pass may have left, running
\* or paused.
EarlierForwardingSessions ==
    {[ForwardingSession(3, ReifyForwarding(
          ForwardingCreationSpecification("web", "backend", ""), sidecarID))
         EXCEPT !.Paused = paused] : sidecarID \in SidecarIDs, paused \in BOOLEAN}
EarlierSynchronizationSessions ==
    {[SynchronizationSession(4, ReifySynchronization(
          SynchronizationCreationSpecification("data", "cache", ""), sidecarID))
         EXCEPT !.Paused = paused] : sidecarID \in SidecarIDs, paused \in BOOLEAN}

\* The daemon holds the sessions of the other project and at most one
\* session of each kind of this project; the liaison has the specifications
\* of a project with one session of each kind, or of a project with none
\* (as when no project was processed).
ControlInit ==
    \E earlierForwarding \in {{}} \cup {{session} : session \in EarlierForwardingSessions},
       earlierSynchronization \in {{}} \cup {{session} : session \in EarlierSynchronizationSessions},
       names \in {{}, {"web"}} :
        /\ forwarding = [name \in names |->
                            ForwardingCreationSpecification(name, "backend", "")]
        /\ synchronization = [name \in {"data"} \cap {n \in {"data"} : names # {}} |->
                                 SynchronizationCreationSpecification(name, "cache", "")]
        /\ forwardingSessions = {OtherForwardingSession} \cup earlierForwarding
        /\ synchronizationSessions = {OtherSynchronizationSession} \cup earlierSynchronization
        /\ nextIdentifier = 5
        /\ pass = [p \in Procs |-> IdlePass]
        /\ compose = IdleCompose
        /\ project = NilProject
        /\ daemonOSType = "linux"
        /\ build = IdleBuild(NilProject)

\* A step of the liaison on the sessions leaves the project as it is.
ProjectUnchanged == UNCHANGED <<project, daemonOSType, build, compose>>

ControlNext ==
    \/ \E p \in Procs : CallSessions(p) /\ ProjectUnchanged
    \/ \E p \in Procs : SessionsConnect(p) /\ ProjectUnchanged
    \/ \E p \in Procs : SessionsForwarding(p) /\ ProjectUnchanged
    \/ \E p \in Procs : SessionsSynchronization(p) /\ ProjectUnchanged
    \/ \E p \in Procs : Reify(p) /\ ProjectUnchanged
    \/ \E p \in Procs : Connect(p) /\ ProjectUnchanged
    \/ \E p \in Procs : ListForwarding(p) /\ ProjectUnchanged
    \/ \E p \in Procs : ListSynchronization(p) /\ ProjectUnchanged
    \/ \E p \in Procs : PruneForwarding(p) /\ ProjectUnchanged
    \/ \E p \in Procs : PruneSynchronization(p) /\ ProjectUnchanged
    \/ \E p \in Procs : ResumeForwarding(p) /\ ProjectUnchanged
    \/ \E p \in Procs : ResumeSynchronization(p) /\ ProjectUnchanged
    \/ \E p \in Procs : CreateForwarding(p) /\ ProjectUnchanged
    \/ \E p \in Procs : CreateSynchronization(p) /\ ProjectUnchanged
    \/ \E p \in Procs : Flush(p) /\ ProjectUnchanged

ControlSpec == ControlInit /\ [][ControlNext]_vars

-----------------------------------------------------------------------------
(* Two passes of reconcileSessions for the same sidecar and the same       *)
(* specifications whose calls to the daemon interleave (two runs of the    *)
(* command at the same time), and a third pass that starts once both have  *)
(* returned (specification ConcurrentSpec).  The daemon serves one call at *)
(* a time and does not refuse a second session of a name.                  *)

\* The two concurrent passes and the pass that follows them.
ConcurrentPasses == {1, 2}
FollowingPass == 3
Passes == ConcurrentPasses \cup {FollowingPass}

\* The liaison has the specification of one session of each kind; the daemon
\* holds no session of the project, or one left by an earlier pass.
ConcurrentInit ==
    \E earlier \in SUBSET ExistingContents, sidecarID \in SidecarIDs :
        /\ Cardinality(earlier) <= 1
        /\ forwarding = [name \in {"web"} |->
                            ForwardingCreationSpecification(name, "backend", "")]
        /\ synchronization = [name \in {"data"} |->
                                 SynchronizationCreationSpecification(name, "cache", "")]
        /\ forwardingSessions =
              {[ForwardingSession(1, ReifyForwarding(ExistingSpecification(c), sidecarID))
                  EXCEPT !.Paused = TRUE] :
                  c \in {d \in earlier : ExistingKind(d) = "forwarding"}}
        /\ synchronizationSessions =
              {[SynchronizationSession(1, ReifySynchronization(ExistingSpecification(c), sidecarID))
                  EXCEPT !.Paused = TRUE] :
                  c \in {d \in earlier : ExistingKind(d) = "synchronization"}}
        /\ nextIdentifier = Cardinality(earlier) + 1
        /\ pass = [p \in Passes |-> IdlePass]
        /\ compose = IdleCompose
        /\ project = NilProject
        /\ daemonOSType = "linux"
        /\ build = IdleBuild(NilProject)

\* A pass may start: each pass runs once, and the following pass starts
\* when the two concurrent passes have returned.
MayStart(p) ==
    /\ pass[p].pc = "idle"
    /\ p = FollowingPass => \A q \in ConcurrentPasses : pass[q].pc = "returned"

ConcurrentNext ==
    \/ \E p \in Passes : MayStart(p) /\ Reify(p) /\ ProjectUnchanged
    \/ \E p \in Passes : Connect(p) /\ ProjectUnchanged
    \/ \E p \in Passes : ListForwarding(p) /\ ProjectUnchanged
    \/ \E p \in Passes : ListSynchronization(p) /\ ProjectUnchanged
    \/ \E p \in Passes : PruneForwarding(p) /\ ProjectUnchanged
    \/ \E p \in Passes : PruneSynchronization(p) /\ ProjectUnchanged
    \/ \E p \in Passes : ResumeForwarding(p) /\ ProjectUnchanged
    \/ \E p \in Passes : ResumeSynchronization(p) /\ ProjectUnchanged
    \/ \E p \in Passes : CreateForwarding(p) /\ ProjectUnchanged
    \/ \E p \in Passes : CreateSynchronization(p) /\ ProjectUnchanged
    \/ \E p \in Passes : Flush(p) /\ ProjectUnchanged

ConcurrentSpec == ConcurrentInit /\ [][ConcurrentNext]_vars

-----------------------------------------------------------------------------
(* One run of a command: the calls of processProject, then, once the       *)
(* sidecar container exists, passes of reconcileSessions on the            *)
(* specifications that processProject stored (specification               *)
(* LifecycleSpec).                                                         *)

\* The projects of a run: those with the two services of the application
\* and every network and volume declared.
LifecycleProjects ==
    {p \in Projects : /\ ~p.nil
                      /\ p.Services = <<ApplicationService, DatabaseService>>
                      /\ "frontend" \in p.Networks}

\* The sessions that an earlier run of the command left for the same
\* sidecar: one of each kind, made from the specifications that
\* processProject stores for a project with the sessions web and data, and
\* paused since.
LeftForwardingSession ==
    [ForwardingSession(3, ReifyForwarding(
         forwardingSpecification("web", PlainForwarding(LocalTCP, NetworkBackend),
                                 forwardingDefaults(EmptyMap)).specification,
         CHOOSE sidecarID \in SidecarIDs : TRUE))
        EXCEPT !.Paused = TRUE]
LeftSynchronizationSession ==
    [SynchronizationSession(4, ReifySynchronization(
         synchronizationSpecification("data", PlainSynchronization(RelativePath, VolumeCache),
                                      synchronizationDefaults(EmptyMap), "linux",
                                      <<"/", "project">>).specification,
         CHOOSE sidecarID \in SidecarIDs : TRUE))
        EXCEPT !.Paused = TRUE]

\* The liaison before its first call of processProject; the daemon holds no
\* session of the project, or the two sessions left by an earlier run.
LifecycleInit ==
    /\ project \in LifecycleProjects
    /\ daemonOSType \in {"linux", "windows"}
    /\ build = IdleBuild(project)
    /\ forwarding = EmptyMap
    /\ synchronization = EmptyMap
    /\ \E left \in BOOLEAN :
        /\ forwardingSessions = {session \in {LeftForwardingSession} : left}
        /\ synchronizationSessions = {session \in {LeftSynchronizationSession} : left}
    /\ nextIdentifier = 5
    /\ pass = [p \in Procs |-> IdlePass]
    /\ compose = IdleCompose

\* No pass of reconcileSessions has started.
NoPassYet == \A p \in Procs : pass[p].pc = "idle"

\* The last call of processProject has returned nil.
Processed == build.pc = "returned" /\ build.err = "" /\ build.calls > 0

LifecycleNext ==
    \/ NoPassYet /\ ProcessProject
    \/ CheckServiceNames
    \/ QueryDaemonMetadata
    \/ DecodeExtension
    \/ ExtractDefaults
    \/ ConvertForwarding
    \/ ConvertSynchronization
    \/ ValidateDependencies
    \/ AddService
    \/ \E p \in Procs : Processed /\ Reify(p) /\ ProjectUnchanged
    \/ \E p \in Procs : Connect(p) /\ ProjectUnchanged
    \/ \E p \in Procs : ListForwarding(p) /\ ProjectUnchanged
    \/ \E p \in Procs : ListSynchronization(p) /\ ProjectUnchanged
    \/ \E p \in Procs : PruneForwarding(p) /\ ProjectUnchanged
    \/ \E p \in Procs : PruneSynchronization(p) /\ ProjectUnchanged
    \/ \E p \in Procs : ResumeForwarding(p) /\ ProjectUnchanged
    \/ \E p \in Procs : ResumeSynchronization(p) /\ ProjectUnchanged
    \/ \E p \in Procs : CreateForwarding(p) /\ ProjectUnchanged
    \/ \E p \in Procs : CreateSynchronization(p) /\ ProjectUnchanged
    \/ \E p \in Procs : Flush(p) /\ ProjectUnchanged

LifecycleSpec == LifecycleInit /\ [][LifecycleNext]_vars

-----------------------------------------------------------------------------
(* composeService: Pull, Create, Up, Down and Ps.  Each of the first four  *)
(* calls processProject, swaps the service lists of the project around its *)
(* calls of the underlying Compose service, and restores them; Ps looks    *)
(* for the sidecar container and lists the sessions of the project.        *)

\* The functions of composeService that the model calls, and those of them
\* that call processProject.
ComposeFunctions == {"Pull", "Create", "Up", "Down", "Ps"}
ProcessingFunctions == {"Pull", "Create", "Up", "Down"}

\* Lines 739-744: a copy of the services with one more service at the end.
appendServiceByCopy(services, service) == Append(services, service)

\* s.liaison.mutagenService: the definition of the sidecar service that the
\* liaison holds, taken to be the one that processProject built and put at
\* the end of the services (lines 406-416).
mutagenService(services) == services[Len(services)]

\* The options that the caller hands to a function, and the options that Up
\* and Create build for the sidecar service alone (lines 805-808, 902-913).
UserOptions == [Services |-> <<>>, IgnoreOrphans |-> FALSE, AttachTo |-> <<>>]
mutagenStopOptions == [Services |-> <<sidecarServiceName>>, IgnoreOrphans |-> FALSE, AttachTo |-> <<>>]
mutagenCreateOptions == [Services |-> <<sidecarServiceName>>, IgnoreOrphans |-> TRUE, AttachTo |-> <<>>]
mutagenUpOptions == [Services |-> <<sidecarServiceName>>, IgnoreOrphans |-> TRUE, AttachTo |-> <<sidecarServiceName>>]

\* A call of the underlying Compose service, of the Docker client or of
\* listSessions: the operation, the service lists of the project handed to
\* it (none when it is handed no project), its options, the number of
\* containers a container listing returned, and whether it succeeded.
ComposeCall(op, handed, options, containers, ok) ==
    [op |-> op,
     Services |-> IF handed.nil THEN <<>> ELSE handed.Services,
     DisabledServices |-> IF handed.nil THEN <<>> ELSE handed.DisabledServices,
     options |-> options, containers |-> containers, ok |-> ok]

\* The error of an underlying call, which the function returns as it is.
UnderlyingError(op) ==
    CASE op = "Pull" -> "underlying Pull failed"
      [] op = "Create" -> "underlying Create failed"
      [] op = "Up" -> "underlying Up failed"
      [] op = "Down" -> "underlying Down failed"
      [] op = "Ps" -> "underlying Ps failed"

\* The errors of the functions (lines 770, 793, 810, 860, 915-921, 943, 983
\* and 985).
ProcessError == "unable to process project"
CreateSidecarError == "unable to create Mutagen Compose sidecar service"
StopSidecarError == "unable to stop Mutagen Compose sidecar service"
UpSidecarError == "unable to bring up Mutagen Compose sidecar service"
ContainerListError == "unable to query Mutagen sidecar container"
MultipleContainersError == "multiple Mutagen sidecar containers identified"

\* The number of sidecar containers that a container listing may return.
MaxContainers == 2

\* The locals once the function has returned an error, or nil ("").
ComposeReturned(locals, err) == [locals EXCEPT !.pc = "returned", !.err = err]

\* The locals with one more call.
ComposeCalled(locals, call) == [locals EXCEPT !.calls = Append(@, call)]

\* What a step of composeService leaves as it is.
ComposeFrame ==
    <<daemonOSType, build, forwarding, synchronization, forwardingSessions,
      synchronizationSessions, nextIdentifier, pass>>

\* Lines 767, 790, 857, 940 and 972: the entry of a function.  Down may be
\* handed no project; Ps is handed none.
CallCompose ==
    /\ compose.pc \in {"idle", "returned"}
    /\ \E function \in ComposeFunctions, nilProject \in BOOLEAN :
        /\ nilProject => function = "Down"
        /\ function \in ProcessingFunctions => build.calls < MaxCalls
        /\ compose' = [IdleCompose EXCEPT
                          !.pc = IF function = "Ps" THEN "containerList" ELSE "processProject",
                          !.function = function,
                          !.nilProject = nilProject,
                          !.processed = build.calls]
    /\ UNCHANGED <<project, ComposeFrame>>

\* Lines 769, 792, 859 and 942: the call of processProject, on the project
\* the function was handed.
ComposeProcessProject ==
    /\ compose.pc = "processProject"
    /\ build.calls = compose.processed
    /\ ProcessProject
    /\ build'.before.project.nil = compose.nilProject

\* processProject has returned to the function that called it.
ProcessReturned(function) ==
    /\ compose.pc = "processProject"
    /\ compose.function = function
    /\ build.pc = "returned"
    /\ build.calls = compose.processed + 1

\* The service lists of the project, as processProject left them.
AfterProcess == [set |-> TRUE, Services |-> project.Services,
                 DisabledServices |-> project.DisabledServices]

\* Lines 769-777: the error of processProject, or the service list cached
\* and the sidecar service put at its end.
PullProcessed ==
    /\ ProcessReturned("Pull")
    /\ IF build.err # ""
       THEN /\ compose' = ComposeReturned(compose, ProcessError)
            /\ UNCHANGED project
       ELSE /\ compose' = [compose EXCEPT !.pc = "Pull",
                                          !.services = project.Services,
                                          !.after = AfterProcess]
            /\ project' = [project EXCEPT !.Services =
                              appendServiceByCopy(@, mutagenService(project.Services))]
    /\ UNCHANGED ComposeFrame

\* Lines 779-786: the underlying Pull, the service list restored, and the
\* return of its result.
UnderlyingPull ==
    /\ compose.pc = "Pull"
    /\ \E ok \in BOOLEAN :
        compose' = ComposeReturned(
                       ComposeCalled(compose, ComposeCall("Pull", project, UserOptions, 0, ok)),
                       IF ok THEN "" ELSE UnderlyingError("Pull"))
    /\ project' = [project EXCEPT !.Services = compose.services]
    /\ UNCHANGED ComposeFrame

\* Lines 792-808: the error of processProject, or the service lists cached
\* and the sidecar service left alone in them.
CreateProcessed ==
    /\ ProcessReturned("Create")
    /\ IF build.err # ""
       THEN /\ compose' = ComposeReturned(compose, ProcessError)
            /\ UNCHANGED project
       ELSE /\ compose' = [compose EXCEPT !.pc = "createSidecar",
                                          !.services = project.Services,
                                          !.disabledServices = project.DisabledServices,
                                          !.after = AfterProcess]
            /\ project' = [project EXCEPT
                              !.Services = <<mutagenService(project.Services)>>,
                              !.DisabledServices = <<>>]
    /\ UNCHANGED ComposeFrame

\* Lines 809-818: the creation of the sidecar service; when it fails, the
\* service lists restored and the return of the error; otherwise the
\* services restored and the sidecar service put with the disabled ones.
CreateSidecar ==
    /\ compose.pc = "createSidecar"
    /\ \/ /\ compose' = [ComposeCalled(compose, ComposeCall("Create", project,
                                                           mutagenCreateOptions, 0, TRUE))
                            EXCEPT !.pc = "Create"]
          /\ project' = [project EXCEPT
                            !.Services = compose.services,
                            !.DisabledServices =
                                appendServiceByCopy(compose.disabledServices,
                                                    mutagenService(compose.services))]
       \/ /\ compose' = ComposeReturned(
                            ComposeCalled(compose, ComposeCall("Create", project,
                                                               mutagenCreateOptions, 0, FALSE)),
                            CreateSidecarError)
          /\ project' = [project EXCEPT !.Services = compose.services,
                                        !.DisabledServices = compose.disabledServices]
    /\ UNCHANGED ComposeFrame

\* Lines 820-827: the underlying Create, the disabled services restored,
\* and the return of its result.
UnderlyingCreate ==
    /\ compose.pc = "Create"
    /\ \E ok \in BOOLEAN :
        compose' = ComposeReturned(
                       ComposeCalled(compose, ComposeCall("Create", project, UserOptions, 0, ok)),
                       IF ok THEN "" ELSE UnderlyingError("Create"))
    /\ project' = [project EXCEPT !.DisabledServices = compose.disabledServices]
    /\ UNCHANGED ComposeFrame

\* Lines 859-913: the error of processProject, or the service lists cached
\* and the sidecar service left alone in them.
UpProcessed ==
    /\ ProcessReturned("Up")
    /\ IF build.err # ""
       THEN /\ compose' = ComposeReturned(compose, ProcessError)
            /\ UNCHANGED project
       ELSE /\ compose' = [compose EXCEPT !.pc = "stopSidecar",
                                          !.services = project.Services,
                                          !.disabledServices = project.DisabledServices,
                                          !.after = AfterProcess]
            /\ project' = [project EXCEPT
                              !.Services = <<mutagenService(project.Services)>>,
                              !.DisabledServices = <<>>]
    /\ UNCHANGED ComposeFrame

\* Mutant: the sidecar service is brought up whether or not its stop failed.
StopSidecarIgnoringFailure ==
    /\ compose.pc = "stopSidecar"
    /\ \E ok \in BOOLEAN :
        compose' = [ComposeCalled(compose, ComposeCall("Stop", NilProject,
                                                       mutagenStopOptions, 0, ok))
                       EXCEPT !.pc = "upSidecar"]
    /\ UNCHANGED <<project, ComposeFrame>>

\* Lines 914-917: the stop of the sidecar service; when it fails, the
\* service lists restored and the return of the error.
StopSidecar ==
    /\ compose.pc = "stopSidecar"
    /\ \/ /\ compose' = [ComposeCalled(compose, ComposeCall("Stop", NilProject,
                                                           mutagenStopOptions, 0, TRUE))
                            EXCEPT !.pc = "upSidecar"]
          /\ UNCHANGED project
       \/ /\ compose' = ComposeReturned(
                            ComposeCalled(compose, ComposeCall("Stop", NilProject,
                                                               mutagenStopOptions, 0, FALSE)),
                            StopSidecarError)
          /\ project' = [project EXCEPT !.Services = compose.services,
                                        !.DisabledServices = compose.disabledServices]
    /\ UNCHANGED ComposeFrame

\* Lines 918-927: the sidecar service brought up; when it fails, the service
\* lists restored and the return of the error; otherwise the services
\* restored and the sidecar service put with the disabled ones.
UpSidecar ==
    /\ compose.pc = "upSidecar"
    /\ \/ /\ compose' = [ComposeCalled(compose, ComposeCall("Up", project,
                                                           mutagenUpOptions, 0, TRUE))
                            EXCEPT !.pc = "Up"]
          /\ project' = [project EXCEPT
                            !.Services = compose.services,
                            !.DisabledServices =
                                appendServiceByCopy(compose.disabledServices,
                                                    mutagenService(compose.services))]
       \/ /\ compose' = ComposeReturned(
                            ComposeCalled(compose, ComposeCall("Up", project,
                                                               mutagenUpOptions, 0, FALSE)),
                            UpSidecarError)
          /\ project' = [project EXCEPT !.Services = compose.services,
                                        !.DisabledServices = compose.disabledServices]
    /\ UNCHANGED ComposeFrame

\* Mutant: the sidecar service stays with the disabled services.
UnderlyingUpUnrestored ==
    /\ compose.pc = "Up"
    /\ \E ok \in BOOLEAN :
        compose' = ComposeReturned(
                       ComposeCalled(compose, ComposeCall("Up", project, UserOptions, 0, ok)),
                       IF ok THEN "" ELSE UnderlyingError("Up"))
    /\ UNCHANGED <<project, ComposeFrame>>

\* Lines 929-936: the underlying Up, the disabled services restored, and
\* the return of its result.
UnderlyingUp ==
    /\ compose.pc = "Up"
    /\ \E ok \in BOOLEAN :
        compose' = ComposeReturned(
                       ComposeCalled(compose, ComposeCall("Up", project, UserOptions, 0, ok)),
                       IF ok THEN "" ELSE UnderlyingError("Up"))
    /\ project' = [project EXCEPT !.DisabledServices = compose.disabledServices]
    /\ UNCHANGED ComposeFrame

\* Lines 942-952: the error of processProject, or, when the options hold a
\* project, the service list cached and the sidecar service put at its end.
DownProcessed ==
    /\ ProcessReturned("Down")
    /\ IF build.err # ""
       THEN /\ compose' = ComposeReturned(compose, ProcessError)
            /\ UNCHANGED project
       ELSE IF compose.nilProject
       THEN /\ compose' = [compose EXCEPT !.pc = "Down"]
            /\ UNCHANGED project
       ELSE /\ compose' = [compose EXCEPT !.pc = "Down",
                                          !.services = project.Services,
                                          !.after = AfterProcess]
            /\ project' = [project EXCEPT !.Services =
                              appendServiceByCopy(@, mutagenService(project.Services))]
    /\ UNCHANGED ComposeFrame

\* Lines 954-963: the underlying Down, the service list restored when the
\* options hold a project, and the return of its result.
UnderlyingDown ==
    /\ compose.pc = "Down"
    /\ \E ok \in BOOLEAN :
        compose' = ComposeReturned(
                       ComposeCalled(compose,
                           ComposeCall("Down", IF compose.nilProject THEN NilProject ELSE project,
                                       UserOptions, 0, ok)),
                       IF ok THEN "" ELSE UnderlyingError("Down"))
    /\ project' = IF compose.nilProject THEN project
                  ELSE [project EXCEPT !.Services = compose.services]
    /\ UNCHANGED ComposeFrame

\* Mutant: with more than one container, the sessions of the first are listed.
ContainerListTakingFirst ==
    /\ compose.pc = "containerList"
    /\ \/ compose' = ComposeReturned(
                         ComposeCalled(compose, ComposeCall("ContainerList", NilProject,
                                                            UserOptions, 0, FALSE)),
                         ContainerListError)
       \/ \E containers \in 0..MaxContainers :
            LET called == ComposeCalled(compose, ComposeCall("ContainerList", NilProject,
                                                             UserOptions, containers, TRUE))
            IN  compose' = IF containers >= 1
                           THEN [called EXCEPT !.pc = "listSessions"]
                           ELSE [called EXCEPT !.pc = "Ps"]
    /\ UNCHANGED <<project, ComposeFrame>>

\* Lines 975-989: the listing of the sidecar containers of the project: its
\* error, the error of more than one container, the listing of the sessions
\* when there is one container, the underlying Ps when there is none.
ContainerList ==
    /\ compose.pc = "containerList"
    /\ \/ compose' = ComposeReturned(
                         ComposeCalled(compose, ComposeCall("ContainerList", NilProject,
                                                            UserOptions, 0, FALSE)),
                         ContainerListError)
       \/ \E containers \in 0..MaxContainers :
            LET called == ComposeCalled(compose, ComposeCall("ContainerList", NilProject,
                                                             UserOptions, containers, TRUE))
            IN  compose' = IF containers > 1
                           THEN ComposeReturned(called, MultipleContainersError)
                           ELSE IF containers = 1
                           THEN [called EXCEPT !.pc = "listSessions"]
                           ELSE [called EXCEPT !.pc = "Ps"]
    /\ UNCHANGED <<project, ComposeFrame>>

\* Line 987: the call of listSessions for the identity of the container.
PsListSessions(p) ==
    /\ compose.pc = "listSessions"
    /\ CallSessions(p)
    /\ pass'[p].function = "listSessions"
    /\ compose' = [compose EXCEPT !.pc = "listing"]
    /\ UNCHANGED <<project, daemonOSType, build>>

\* Lines 987-989: listSessions has returned: its error is returned as it is.
PsListed(p) ==
    /\ compose.pc = "listing"
    /\ pass[p].pc = "returned"
    /\ LET called == ComposeCalled(compose,
                         ComposeCall("listSessions", NilProject, UserOptions, 0,
                                     pass[p].err = NoError))
       IN  compose' = IF pass[p].err # NoError
                      THEN ComposeReturned(called, pass[p].err.message)
                      ELSE [called EXCEPT !.pc = "Ps"]
    /\ UNCHANGED <<project, ComposeFrame>>

\* Line 993: the underlying Ps and the return of its result.
UnderlyingPs ==
    /\ compose.pc = "Ps"
    /\ \E ok \in BOOLEAN :
        compose' = ComposeReturned(
                       ComposeCalled(compose, ComposeCall("Ps", NilProject, UserOptions, 0, ok)),
                       IF ok THEN "" ELSE UnderlyingError("Ps"))
    /\ UNCHANGED <<project, ComposeFrame>>

\* A service that the project holds as disabled.
DisabledService == ServiceConfig("debug", "debug", EmptyMap, {}, <<>>, EmptyMap)

\* The projects handed to composeService: two services, with no x-mutagen
\* section, with a section of synchronization sessions, or with a section
\* that does not decode; with or without a disabled service.
ComposeProjects ==
    {[p EXCEPT !.DisabledServices = disabled] :
        p \in {q \in LifecycleProjects :
                  \/ q.Extensions = EmptyMap
                  \/ DOMAIN q.Extensions["x-mutagen"] \in {{"sync"}, {"forwards"}}},
        disabled \in {<<>>, <<DisabledService>>}}

\* The liaison before the first call of a function of composeService; the
\* daemon holds the two sessions left by an earlier run.
ComposeInit ==
    /\ project \in ComposeProjects
    /\ daemonOSType = "linux"
    /\ build = IdleBuild(project)
    /\ forwarding = EmptyMap
    /\ synchronization = EmptyMap
    /\ forwardingSessions = {LeftForwardingSession}
    /\ synchronizationSessions = {LeftSynchronizationSession}
    /\ nextIdentifier = 5
    /\ pass = [p \in Procs |-> IdlePass]
    /\ compose = IdleCompose

ComposeNext ==
    \/ CallCompose
    \/ ComposeProcessProject
    \/ CheckServiceNames
    \/ QueryDaemonMetadata
    \/ DecodeExtension
    \/ ExtractDefaults
    \/ ConvertForwarding
    \/ ConvertSynchronization
    \/ ValidateDependencies
    \/ AddService
    \/ PullProcessed
    \/ UnderlyingPull
    \/ CreateProcessed
    \/ CreateSidecar
    \/ UnderlyingCreate
    \/ UpProcessed
    \/ StopSidecar
    \/ UpSidecar
    \/ UnderlyingUp
    \/ DownProcessed
    \/ UnderlyingDown
    \/ ContainerList
    \/ \E p \in Procs : PsListSessions(p)
    \/ \E p \in Procs : SessionsConnect(p) /\ ProjectUnchanged
    \/ \E p \in Procs : SessionsForwarding(p) /\ ProjectUnchanged
    \/ \E p \in Procs : SessionsSynchronization(p) /\ ProjectUnchanged
    \/ \E p \in Procs : PsListed(p)
    \/ UnderlyingPs

ComposeSpec == ComposeInit /\ [][ComposeNext]_vars

-----------------------------------------------------------------------------
(* Vocabulary of the properties. *)

\* The positions of the calls of a pass that are of an operation.
CallsOf(p, op) == {i \in 1..Len(pass[p].calls) : pass[p].calls[i].op = op}

\* The pass has listed both kinds and classified the listings.
Classified(p) ==
    \E i \in CallsOf(p, "list") :
        pass[p].calls[i].kind = "synchronization" /\ pass[p].calls[i].ok

\* The pass has returned nil.
Succeeded(p) == pass[p].pc = "returned" /\ pass[p].err = NoError

\* The sessions of the daemon that carry the ownership label of the pass.
OwnedForwarding(p) ==
    {session \in forwardingSessions : Selected(session, projectSelection(pass[p].sidecarID))}
OwnedSynchronization(p) ==
    {session \in synchronizationSessions : Selected(session, projectSelection(pass[p].sidecarID))}

\* The session has the endpoints and the configuration of the specification.
SameForwarding(session, specification) ==
    /\ session.Name = specification.Name
    /\ <<session.Source, session.Destination>> =
           <<specification.Source, specification.Destination>>
    /\ <<session.Configuration, session.ConfigurationSource, session.ConfigurationDestination>> =
           <<specification.Configuration, specification.ConfigurationSource,
             specification.ConfigurationDestination>>
SameSynchronization(session, specification) ==
    /\ session.Name = specification.Name
    /\ <<session.Alpha, session.Beta>> = <<specification.Alpha, specification.Beta>>
    /\ <<session.Configuration, session.ConfigurationAlpha, session.ConfigurationBeta>> =
           <<specification.Configuration, specification.ConfigurationAlpha,
             specification.ConfigurationBeta>>

\* The daemon holds, under the ownership label of the pass, exactly one
\* session per specification, equal to it, and no other session.
Converged(p) ==
    /\ \A name \in DOMAIN forwarding :
          \E session \in OwnedForwarding(p) :
              /\ SameForwarding(session, forwarding[name])
              /\ \A other \in OwnedForwarding(p) : other.Name = name => other = session
    /\ \A session \in OwnedForwarding(p) : session.Name \in DOMAIN forwarding
    /\ \A name \in DOMAIN synchronization :
          \E session \in OwnedSynchronization(p) :
              /\ SameSynchronization(session, synchronization[name])
              /\ \A other \in OwnedSynchronization(p) : other.Name = name => other = session
    /\ \A session \in OwnedSynchronization(p) : session.Name \in DOMAIN synchronization

-----------------------------------------------------------------------------
(* Properties of reconcileSessions. *)

\* C1: a pass that follows a pass that returned nil, with the same
\* specifications and the same sidecar identity and no other change to the
\* daemon's sessions in between, puts nothing in its prune lists and its
\* create lists and issues no terminate call and no create call.
C1_SecondRunIssuesNoPruneNoCreate ==
    \A p \in Procs :
        pass[p].previous = "ok" =>
            /\ CallsOf(p, "terminate") = {}
            /\ CallsOf(p, "create") = {}
            /\ pass[p].forwardingPruneList = <<>>
            /\ pass[p].synchronizationPruneList = <<>>
            /\ pass[p].forwardingCreateSpecifications = <<>>
            /\ pass[p].synchronizationCreateSpecifications = <<>>

\* A second pass in a row has returned nil, over sessions of both kinds, after
\* sessions were terminated and after sessions were created.
C1_Witness ==
    \E p \in Procs :
        /\ pass[p].previous = "ok"
        /\ Succeeded(p)
        /\ Len(pass[p].forwardingListResponse) > 0
        /\ Len(pass[p].synchronizationListResponse) > 0
        /\ nextIdentifier - 1 > Cardinality(forwardingSessions) + Cardinality(synchronizationSessions)
        /\ \E session \in synchronizationSessions : session.Identifier > MaxExisting

\* The place of an operation in the order of a pass.
Rank(call) ==
    CASE call.op = "terminate" -> 1
      [] call.op = "resume" -> 2
      [] call.op = "create" -> 3
      [] call.op = "flush" -> 4
      [] OTHER -> 0

\* C2: in a pass every terminate call comes before the resume calls, the
\* resume calls come before every create call, and the flush call comes after
\* every create call.
C2_FixedOrder ==
    \A p \in Procs :
        \A i, j \in 1..Len(pass[p].calls) :
            i < j => Rank(pass[p].calls[i]) <= Rank(pass[p].calls[j])

\* A pass has returned nil after terminate, resume, create and flush calls.
C2_Witness ==
    \E p \in Procs :
        /\ Succeeded(p)
        /\ CallsOf(p, "terminate") # {}
        /\ CallsOf(p, "resume") # {}
        /\ CallsOf(p, "create") # {}
        /\ CallsOf(p, "flush") # {}

\* The listing holds one forwarding session, named web, whose destination
\* differs from that of the specification web.
C3_Scenario(p) ==
    /\ Classified(p)
    /\ Len(pass[p].forwardingListResponse) = 1
    /\ pass[p].forwardingListResponse[1].Name = "web"
    /\ "web" \in DOMAIN forwarding
    /\ pass[p].forwardingListResponse[1].Destination # forwarding["web"].Destination

\* The calls of the pass that terminate the listed forwarding session web, and
\* those that create a forwarding session web.
C3_Prunes(p) ==
    {i \in CallsOf(p, "terminate") :
        /\ pass[p].calls[i].kind = "forwarding"
        /\ pass[p].forwardingListResponse[1].Identifier \in pass[p].calls[i].identifiers}
C3_Creates(p) ==
    {i \in CallsOf(p, "create") :
        pass[p].calls[i].kind = "forwarding" /\ pass[p].calls[i].name = "web"}

\* C3 as stated: in the scenario the existing session is pruned, then the new
\* session is created, and both happen before the resume operation.
C3_CreateBeforeResume ==
    \A p \in Procs :
        C3_Scenario(p) /\ Succeeded(p) =>
            \E t \in C3_Prunes(p), c \in C3_Creates(p) :
                /\ t < c
                /\ \A r \in CallsOf(p, "resume") : c < r

\* C3 as amended: in the scenario the existing session is pruned, then the
\* sessions of both kinds are resumed, and only then the new session web is
\* created; a pass that returns nil has done all three.
C3_PruneResumeCreate ==
    \A p \in Procs :
        C3_Scenario(p) =>
            /\ \A c \in C3_Creates(p) :
                  \E t \in C3_Prunes(p), rf, rs \in CallsOf(p, "resume") :
                      /\ pass[p].calls[rf].kind = "forwarding"
                      /\ pass[p].calls[rs].kind = "synchronization"
                      /\ t < rf /\ rf < rs /\ rs < c
            /\ \A r \in CallsOf(p, "resume") : \E t \in C3_Prunes(p) : t < r
            /\ Succeeded(p) => C3_Creates(p) # {}

\* A pass has returned nil in the scenario.
C3_Witness ==
    \E p \in Procs : C3_Scenario(p) /\ Succeeded(p) /\ C3_Creates(p) # {}

\* C4: after a pass that returns nil the daemon holds, under the ownership
\* label, exactly one session per specification of each kind, with the
\* endpoints and the configuration of the specification, and no session whose
\* name has no specification.
C4_ConvergedAfterSuccess ==
    \A p \in Procs : Succeeded(p) => Converged(p)

\* A pass has returned nil after it terminated and created sessions, with
\* specifications of both kinds.
C4_Witness ==
    \E p \in Procs :
        /\ Succeeded(p)
        /\ DOMAIN forwarding # {} /\ DOMAIN synchronization # {}
        /\ \E i \in CallsOf(p, "terminate") : pass[p].calls[i].kind = "forwarding"
        /\ \E i \in CallsOf(p, "create") : pass[p].calls[i].kind = "forwarding"
        /\ Cardinality(forwardingSessions) = Cardinality(DOMAIN forwarding)

\* C5: the pass that follows a pass aborted by a failed call, and that runs to
\* completion with the same specifications and the same ownership label,
\* leaves the daemon converged.
C5_ConvergedAfterAbortedPass ==
    \A p \in Procs :
        pass[p].previous = "error" /\ Succeeded(p) => Converged(p)

\* A pass has returned nil after an aborted pass: it listed a synchronization
\* session that the aborted pass had created (no session is unpaused and has
\* so high an identifier otherwise), and it created the one that was left.
C5_Witness ==
    \E p \in Procs :
        /\ pass[p].previous = "error"
        /\ Succeeded(p)
        /\ \E i \in 1..Len(pass[p].synchronizationListResponse) :
              /\ ~pass[p].synchronizationListResponse[i].Paused
              /\ pass[p].synchronizationListResponse[i].Identifier > MaxExisting
        /\ \E i \in CallsOf(p, "create") : pass[p].calls[i].kind = "synchronization"

\* The listed session at i is the first of its name, and it is not the only one.
FirstOfName(states, i) == \A j \in 1..(i - 1) : states[j].Name # states[i].Name
HasDuplicate(states, i) ==
    \E j \in 1..Len(states) : j # i /\ states[j].Name = states[i].Name

\* C6 as stated: of the listed sessions of one name, the first one is not put
\* in the prune list and all the others are.
C6_FirstAlwaysSurvives ==
    \A p \in Procs :
        Classified(p) =>
            /\ \A i \in 1..Len(pass[p].forwardingListResponse) :
                  HasDuplicate(pass[p].forwardingListResponse, i) =>
                      (FirstOfName(pass[p].forwardingListResponse, i)
                          <=> pass[p].forwardingListResponse[i].Identifier
                                  \notin Range(pass[p].forwardingPruneList))
            /\ \A i \in 1..Len(pass[p].synchronizationListResponse) :
                  HasDuplicate(pass[p].synchronizationListResponse, i) =>
                      (FirstOfName(pass[p].synchronizationListResponse, i)
                          <=> pass[p].synchronizationListResponse[i].Identifier
                                  \notin Range(pass[p].synchronizationPruneList))

\* C6 as amended: of the listed sessions of one name (and kind), all but the
\* first are put in the prune list; the first is put in the prune list too
\* when its name has no specification or when it differs from the
\* specification (which is then put in the create list), and is kept otherwise.
C6_DuplicatesPruned ==
    \A p \in Procs :
        Classified(p) =>
            /\ \A i \in 1..Len(pass[p].forwardingListResponse) :
                  LET session == pass[p].forwardingListResponse[i]
                      pruned == session.Identifier \in Range(pass[p].forwardingPruneList)
                  IN  HasDuplicate(pass[p].forwardingListResponse, i) =>
                        IF ~FirstOfName(pass[p].forwardingListResponse, i) THEN pruned
                        ELSE IF session.Name \notin DOMAIN forwarding THEN pruned
                        ELSE IF SameForwarding(session, forwarding[session.Name])
                        THEN ~pruned
                        ELSE /\ pruned
                             /\ forwarding[session.Name]
                                    \in Range(pass[p].forwardingCreateSpecifications)
            /\ \A i \in 1..Len(pass[p].synchronizationListResponse) :
                  LET session == pass[p].synchronizationListResponse[i]
                      pruned == session.Identifier \in Range(pass[p].synchronizationPruneList)
                  IN  HasDuplicate(pass[p].synchronizationListResponse, i) =>
                        IF ~FirstOfName(pass[p].synchronizationListResponse, i) THEN pruned
                        ELSE IF session.Name \notin DOMAIN synchronization THEN pruned
                        ELSE IF SameSynchronization(session, synchronization[session.Name])
                        THEN ~pruned
                        ELSE /\ pruned
                             /\ synchronization[session.Name]
                                    \in Range(pass[p].synchronizationCreateSpecifications)

\* A pass that returned nil listed two synchronization sessions of one name,
\* kept the first and terminated the second.
C6_Witness ==
    \E p \in Procs :
        /\ Succeeded(p)
        /\ Len(pass[p].synchronizationListResponse) = 2
        /\ HasDuplicate(pass[p].synchronizationListResponse, 1)
        /\ pass[p].synchronizationPruneList =
               <<pass[p].synchronizationListResponse[2].Identifier>>
        /\ pass[p].synchronizationListResponse[1].Identifier
               \in {session.Identifier : session \in synchronizationSessions}
        /\ pass[p].synchronizationListResponse[2].Identifier
               \notin {session.Identifier : session \in synchronizationSessions}

\* The identifiers of the sessions of a listing.
Identifiers(states) == {states[i].Identifier : i \in 1..Len(states)}

\* C7: with no specification of either kind, every listed session is put in
\* the prune list of its kind, and the pass creates no session and issues no
\* flush.
C7_NoSpecificationPrunesAll ==
    \A p \in Procs :
        Classified(p) /\ DOMAIN forwarding = {} /\ DOMAIN synchronization = {} =>
            /\ Range(pass[p].forwardingPruneList) =
                   Identifiers(pass[p].forwardingListResponse)
            /\ Len(pass[p].forwardingPruneList) = Len(pass[p].forwardingListResponse)
            /\ Range(pass[p].synchronizationPruneList) =
                   Identifiers(pass[p].synchronizationListResponse)
            /\ Len(pass[p].synchronizationPruneList) = Len(pass[p].synchronizationListResponse)
            /\ pass[p].forwardingCreateSpecifications = <<>>
            /\ pass[p].synchronizationCreateSpecifications = <<>>
            /\ CallsOf(p, "create") = {}
            /\ CallsOf(p, "flush") = {}

\* With no specification, a pass has returned nil after it listed sessions of
\* both kinds, and the daemon holds none of them any more.
C7_Witness ==
    \E p \in Procs :
        /\ Succeeded(p)
        /\ DOMAIN forwarding = {} /\ DOMAIN synchronization = {}
        /\ Len(pass[p].forwardingListResponse) > 0
        /\ Len(pass[p].synchronizationListResponse) > 0
        /\ forwardingSessions = {} /\ synchronizationSessions = {}

\* C8 as stated: on a later pass, a specification that some listed session
\* equals is not put in the create list, and that session is not put in the
\* prune list.
C8_AnyCurrentSessionKept ==
    \A p \in Procs :
        Classified(p) /\ pass[p].previous # "none" =>
            /\ \A i \in 1..Len(pass[p].forwardingListResponse) :
                  LET session == pass[p].forwardingListResponse[i] IN
                  (session.Name \in DOMAIN forwarding
                   /\ SameForwarding(session, forwarding[session.Name])) =>
                      /\ forwarding[session.Name]
                             \notin Range(pass[p].forwardingCreateSpecifications)
                      /\ session.Identifier \notin Range(pass[p].forwardingPruneList)
            /\ \A i \in 1..Len(pass[p].synchronizationListResponse) :
                  LET session == pass[p].synchronizationListResponse[i] IN
                  (session.Name \in DOMAIN synchronization
                   /\ SameSynchronization(session, synchronization[session.Name])) =>
                      /\ synchronization[session.Name]
                             \notin Range(pass[p].synchronizationCreateSpecifications)
                      /\ session.Identifier \notin Range(pass[p].synchronizationPruneList)

\* C8 as amended: a specification that the first listed session of its name
\* equals is not put in the create list, and that session is not put in the
\* prune list (a later listed session of the name is pruned as a duplicate
\* even when it equals the specification, and when the first one differs the
\* specification is created anew).
C8_FirstCurrentSessionKept ==
    \A p \in Procs :
        Classified(p) =>
            /\ \A i \in 1..Len(pass[p].forwardingListResponse) :
                  LET session == pass[p].forwardingListResponse[i] IN
                  (/\ FirstOfName(pass[p].forwardingListResponse, i)
                   /\ session.Name \in DOMAIN forwarding
                   /\ SameForwarding(session, forwarding[session.Name])) =>
                      /\ forwarding[session.Name]
                             \notin Range(pass[p].forwardingCreateSpecifications)
                      /\ session.Identifier \notin Range(pass[p].forwardingPruneList)
            /\ \A i \in 1..Len(pass[p].synchronizationListResponse) :
                  LET session == pass[p].synchronizationListResponse[i] IN
                  (/\ FirstOfName(pass[p].synchronizationListResponse, i)
                   /\ session.Name \in DOMAIN synchronization
                   /\ SameSynchronization(session, synchronization[session.Name])) =>
                      /\ synchronization[session.Name]
                             \notin Range(pass[p].synchronizationCreateSpecifications)
                      /\ session.Identifier \notin Range(pass[p].synchronizationPruneList)

\* On a later pass, a listed forwarding session equals its specification, is
\* the first of its name, and is still held by the daemon when the pass has
\* returned nil after terminating another session.
C8_Witness ==
    \E p \in Procs :
        /\ Succeeded(p)
        /\ pass[p].previous # "none"
        /\ pass[p].forwardingPruneList # <<>>
        /\ \E i \in 1..Len(pass[p].forwardingListResponse) :
              LET session == pass[p].forwardingListResponse[i] IN
              /\ FirstOfName(pass[p].forwardingListResponse, i)
              /\ session.Name \in DOMAIN forwarding
              /\ SameForwarding(session, forwarding[session.Name])
              /\ \E held \in forwardingSessions : held.Identifier = session.Identifier

\* C9: a failed daemon call is the last call of its pass, and the pass has
\* returned an error; a pass that returns nil has had no failed call.
C9_FailureEndsPass ==
    \A p \in Procs :
        /\ \A i \in 1..Len(pass[p].calls) :
              ~pass[p].calls[i].ok =>
                  /\ i = Len(pass[p].calls)
                  /\ pass[p].pc = "returned"
                  /\ pass[p].err # NoError
        /\ (pass[p].pc = "returned" /\ pass[p].err # NoError) =>
              /\ pass[p].calls # <<>>
              /\ ~pass[p].calls[Len(pass[p].calls)].ok

\* A pass has returned an error on a failed create call, after terminate and
\* resume calls, with a synchronization session left to create.
C9_Witness ==
    \E p \in Procs :
        /\ pass[p].pc = "returned"
        /\ pass[p].err.message = "unable to create forwarding session"
        /\ CallsOf(p, "terminate") # {}
        /\ pass[p].synchronizationCreateSpecifications # <<>>
        /\ pass[p].synchronizationCreated = 0
        /\ CallsOf(p, "flush") = {}

\* The identifiers returned by the synchronization create calls of the pass.
CreatedSynchronization(p) ==
    UNION {pass[p].calls[i].identifiers :
              i \in {j \in CallsOf(p, "create") :
                        pass[p].calls[j].kind = "synchronization" /\ pass[p].calls[j].ok}}

\* The identifiers returned by the forwarding create calls of the pass.
CreatedForwarding(p) ==
    UNION {pass[p].calls[i].identifiers :
              i \in {j \in CallsOf(p, "create") :
                        pass[p].calls[j].kind = "forwarding" /\ pass[p].calls[j].ok}}

\* C10 as stated: a pass issues a flush if and only if it created a
\* synchronization session; the flush selects exactly the identifiers those
\* creations returned and it waits.
C10_FlushIffCreated ==
    \A p \in Procs :
        pass[p].pc = "returned" =>
            /\ CallsOf(p, "flush") # {} <=> CreatedSynchronization(p) # {}
            /\ \A f \in CallsOf(p, "flush") :
                  /\ pass[p].calls[f].identifiers = CreatedSynchronization(p)
                  /\ ~pass[p].calls[f].skipWait

\* C10 as amended: a pass in which no create call fails issues a flush if and
\* only if it created a synchronization session (a pass aborted by a failed
\* create call issues none, whatever it created before); a flush selects
\* exactly the identifiers the synchronization create calls of its pass
\* returned, none of a listed session or of a forwarding session, and it waits.
C10_FlushOfCreated ==
    \A p \in Procs :
        /\ \A f \in CallsOf(p, "flush") :
              /\ pass[p].calls[f].identifiers = CreatedSynchronization(p)
              /\ pass[p].calls[f].identifiers # {}
              /\ pass[p].calls[f].identifiers
                     \cap (Identifiers(pass[p].synchronizationListResponse)
                           \cup Identifiers(pass[p].forwardingListResponse)
                           \cup CreatedForwarding(p)) = {}
              /\ pass[p].calls[f].kind = "synchronization"
              /\ ~pass[p].calls[f].skipWait
              /\ \A g \in CallsOf(p, "flush") : g = f
        /\ (/\ pass[p].pc = "returned"
            /\ \A c \in CallsOf(p, "create") : pass[p].calls[c].ok) =>
              (CallsOf(p, "flush") # {} <=> CreatedSynchronization(p) # {})

\* A pass has returned nil after a flush of two synchronization sessions it
\* created, having also created a forwarding session and kept a listed one.
C10_Witness ==
    \E p \in Procs :
        /\ Succeeded(p)
        /\ \E f \in CallsOf(p, "flush") : Cardinality(pass[p].calls[f].identifiers) = 2
        /\ CreatedForwarding(p) # {}
        /\ Cardinality(forwardingSessions) > Cardinality(CreatedForwarding(p))

-----------------------------------------------------------------------------
(* Vocabulary of the properties of processProject. *)

\* The call of processProject has returned an error.
BuildErred == build.pc = "returned" /\ build.err # ""

\* The call of processProject, on a project that is not nil, has returned nil.
BuildSucceeded == build.pc = "returned" /\ build.err = "" /\ ~build.before.project.nil

\* The error of a conflict of service names.
ConflictError == "Mutagen sidecar service name conflicts with existing service"

\* The error of a failed query of the daemon metadata.
MetadataError == "unable to query daemon metadata"

\* The positions of the services of a list that have the name of the sidecar.
SidecarPositions(services) ==
    {s \in 1..Len(services) : services[s].Name = sidecarServiceName}

\* The sessions of one kind ("forwarding" or "sync") that the x-mutagen
\* section of a project declares, the defaults entry left out.
DeclaredSessions(p, kind) ==
    IF p.nil \/ "x-mutagen" \notin DOMAIN p.Extensions THEN EmptyMap
    ELSE IF kind \notin DOMAIN p.Extensions["x-mutagen"] THEN EmptyMap
    ELSE LET section == p.Extensions["x-mutagen"][kind] IN
         [name \in {n \in DOMAIN section : n # "defaults"} |-> section[name]]

\* The defaults entry of one kind in the x-mutagen section of a project, or
\* an entry that sets nothing.
DeclaredDefaults(p, kind, nothing) ==
    IF p.nil \/ "x-mutagen" \notin DOMAIN p.Extensions THEN nothing
    ELSE IF kind \notin DOMAIN p.Extensions["x-mutagen"] THEN nothing
    ELSE IF "defaults" \notin DOMAIN p.Extensions["x-mutagen"][kind] THEN nothing
    ELSE p.Extensions["x-mutagen"][kind]["defaults"]

-----------------------------------------------------------------------------
(* Properties of processProject. *)

\* C11: a call of processProject that returns an error leaves the project
\* (its services and their dependencies) and the specifications stored in
\* the liaison as they were when it was called, and has had no interaction
\* with the session daemon: the only outside call is the query of the
\* Docker daemon's metadata.
C11_FailureChangesNothing ==
    BuildErred =>
        /\ project = build.before.project
        /\ forwarding = build.before.forwarding
        /\ synchronization = build.before.synchronization
        /\ \A i \in 1..Len(build.interactions) : build.interactions[i] = "Info"
        /\ forwardingSessions = {} /\ synchronizationSessions = {}
        /\ \A p \in Procs : pass[p].calls = <<>>

\* A call fails on an undeclared network after it has built the
\* specifications of both kinds.
C11_Witness ==
    /\ BuildErred
    /\ build.err = "undefined network referenced by forwarding session"
    /\ build.forwardingSpecifications # EmptyMap
    /\ build.synchronizationSpecifications # EmptyMap
    /\ forwarding = EmptyMap

\* C12 as stated: a call of processProject that follows a call that
\* returned nil, on the same project and with the same daemon metadata,
\* returns nil and stores the specifications the first call stored.
C12_RerunSucceeds ==
    (build.pc = "returned" /\ build.first.stored /\ build.err # MetadataError
        /\ ~build.before.project.nil) =>
        /\ build.err = ""
        /\ forwarding = build.first.forwarding
        /\ synchronization = build.first.synchronization

\* C12: a call of processProject that follows a call that returned nil,
\* with the same daemon metadata, returns nil and stores the specifications
\* the first call stored when it is handed the project as its file declares
\* it; handed the project the first call left, which has the sidecar
\* service, it returns the error of a name conflict and the stored
\* specifications stay those of the first call.
C12_RerunOnDeclaredProject ==
    (build.pc = "returned" /\ build.first.stored /\ build.err # MetadataError
        /\ ~build.before.project.nil) =>
        /\ forwarding = build.first.forwarding
        /\ synchronization = build.first.synchronization
        /\ build.before.project = build.descriptor => build.err = ""
        /\ build.before.project # build.descriptor => build.err = ConflictError

\* A second call on the declared project stores again the specifications of
\* the first call, which are some.
C12_Witness ==
    /\ build.pc = "returned" /\ build.calls = 2 /\ build.err = ""
    /\ build.first.stored
    /\ build.before.project = build.descriptor
    /\ DOMAIN forwarding = {"web", "api"}
    /\ forwarding = build.first.forwarding

\* C13: the services of the project never hold more than one service with
\* the name of the sidecar; a call that returns nil leaves the services it
\* was handed in their places, each as it was but for a dependency on the
\* sidecar, and one service after them, which has the name of the sidecar.
C13_OneSidecarService ==
    /\ Cardinality(SidecarPositions(project.Services)) <= 1
    /\ BuildSucceeded =>
        LET old == build.before.project.Services
            new == project.Services
        IN
        /\ Len(new) = Len(old) + 1
        /\ SidecarPositions(new) = {Len(new)}
        /\ \A s \in 1..Len(old) :
            /\ [new[s] EXCEPT !.DependsOn = old[s].DependsOn] = old[s]
            /\ DOMAIN new[s].DependsOn \subseteq DOMAIN old[s].DependsOn \cup {sidecarServiceName}
            /\ \A service \in DOMAIN old[s].DependsOn :
                  service \in DOMAIN new[s].DependsOn
                  /\ new[s].DependsOn[service] = old[s].DependsOn[service]

\* A second call, on the project the first call left, has returned and the
\* project has three services, the last of which is the sidecar.
C13_Witness ==
    /\ build.pc = "returned" /\ build.calls = 2
    /\ build.before.project # build.descriptor
    /\ Len(project.Services) = 3
    /\ SidecarPositions(project.Services) = {3}
    /\ sidecarServiceName \in DOMAIN project.Services[1].DependsOn

\* C14: handed a project with a service that has the name of the sidecar,
\* processProject returns the error of a name conflict without having
\* queried the daemon metadata or decoded the x-mutagen section, and leaves
\* the project as it was.
C14_ConflictFailsFirst ==
    (build.pc # "idle" /\ ~build.before.project.nil
        /\ SidecarPositions(build.before.project.Services) # {}) =>
        /\ build.pc \in {"names", "returned"}
        /\ build.interactions = <<>>
        /\ build.sessions = [Forwarding |-> EmptyMap, Synchronization |-> EmptyMap]
        /\ project = build.before.project
        /\ build.pc = "returned" => build.err = ConflictError

\* The first call on a declared project with a service named like the
\* sidecar and an x-mutagen section with sessions has returned.
C14_Witness ==
    /\ build.pc = "returned" /\ build.calls = 1
    /\ build.err = ConflictError
    /\ DeclaredSessions(build.before.project, "forwarding") # EmptyMap
    /\ build.interactions = <<>>

\* C15: every synchronization specification that a call of processProject
\* stores has one endpoint that is the placeholder of a path in a volume and
\* one that is a local URL with an absolute path; a call handed a
\* synchronization session of which neither endpoint or both endpoints have
\* the volume prefix returns an error.
C15_ExactlyOneVolume ==
    /\ BuildSucceeded =>
          \A name \in DOMAIN synchronization :
              LET protocols == <<synchronization[name].Alpha.Protocol,
                                 synchronization[name].Beta.Protocol>>
                  local == IF protocols[1] = "local" THEN synchronization[name].Alpha
                           ELSE synchronization[name].Beta
              IN
              /\ protocols \in {<<"local", "sidecar">>, <<"sidecar", "local">>}
              /\ local.Path # <<>> /\ local.Path[1] = "/"
    /\ build.pc = "returned" =>
          \A name \in DOMAIN DeclaredSessions(build.before.project, "sync") :
              LET session == DeclaredSessions(build.before.project, "sync")[name]
                  alphaHasPrefix == session.Alpha # <<>> /\ session.Alpha[1] = "volume://"
                  betaHasPrefix == session.Beta # <<>> /\ session.Beta[1] = "volume://"
              IN
              alphaHasPrefix = betaHasPrefix => build.err # ""

\* A call has stored two synchronization specifications, one with the
\* volume as beta and a relative path resolved as alpha, one with the volume
\* as alpha.
C15_Witness ==
    /\ BuildSucceeded
    /\ DOMAIN synchronization = {"data", "logs"}
    /\ synchronization["data"].Alpha = localURL(<<"/", "project", "app">>)
    /\ synchronization["data"].Beta.Protocol = "sidecar"
    /\ synchronization["logs"].Alpha.Protocol = "sidecar"
    /\ synchronization["logs"].Beta = localURL(<<"/", "project", "logs">>)

\* C16: every forwarding specification that a call of processProject stores
\* has a local source with a TCP-based endpoint and the placeholder of an
\* endpoint inside the sidecar as destination; a call handed a forwarding
\* session whose source is a network address, is not local or is not
\* TCP-based, or whose destination is no network address, returns an error.
C16_LocalTCPToNetwork ==
    /\ BuildSucceeded =>
          \A name \in DOMAIN forwarding :
              /\ forwarding[name].Source.Protocol = "local"
              /\ forwarding[name].Source.Path[1] \in {"tcp", "tcp4", "tcp6"}
              /\ forwarding[name].Destination.Protocol = "sidecar"
    /\ build.pc = "returned" =>
          \A name \in DOMAIN DeclaredSessions(build.before.project, "forwarding") :
              LET session == DeclaredSessions(build.before.project, "forwarding")[name] IN
              (\/ session.Source[1] \in {"network://", "docker://"}
               \/ session.Source[1] \notin {"tcp", "tcp4", "tcp6"}
               \/ session.Destination[1] # "network://") => build.err # ""

\* A call has stored the forwarding specification of a session from a local
\* TCP endpoint to an endpoint on a network.
C16_Witness ==
    /\ BuildSucceeded
    /\ "web" \in DOMAIN forwarding
    /\ forwarding["web"].Source = localURL(<<"tcp", "localhost:8080">>)
    /\ forwarding["web"].Destination = sidecarURL(<<"tcp", "web:80">>)

\* C17: a call of processProject handed a forwarding session whose
\* destination names a network, or a synchronization session with an
\* endpoint that names a volume, that the project does not declare returns
\* an error; after a call that returns nil every network and every volume of
\* the sidecar service is declared by the project.
C17_DependenciesDeclared ==
    /\ build.pc = "returned" =>
          /\ \A name \in DOMAIN DeclaredSessions(build.before.project, "forwarding") :
                LET session == DeclaredSessions(build.before.project, "forwarding")[name] IN
                (session.Destination[1] = "network://"
                    /\ session.Destination[2] \notin build.before.project.Networks)
                => build.err # ""
          /\ \A name \in DOMAIN DeclaredSessions(build.before.project, "sync") :
                LET session == DeclaredSessions(build.before.project, "sync")[name] IN
                \A raw \in {session.Alpha, session.Beta} :
                    (raw # <<>> /\ raw[1] = "volume://"
                        /\ raw[2] \notin build.before.project.Volumes)
                    => build.err # ""
    /\ BuildSucceeded =>
          LET sidecar == project.Services[Len(project.Services)] IN
          /\ sidecar.Networks \subseteq project.Networks
          /\ \A v \in 1..Len(sidecar.Volumes) :
                sidecar.Volumes[v].Source \in project.Volumes

\* A call has failed on a volume that the project does not declare.
C17_Witness ==
    /\ BuildErred
    /\ build.err = "undefined volume referenced by synchronization session"
    /\ "ghost" \in build.volumeDependencies
    /\ project.Services = build.before.project.Services

\* The networks that the destinations of the declared forwarding sessions name.
DeclaredNetworks(p) ==
    {DeclaredSessions(p, "forwarding")[name].Destination[2] :
        name \in DOMAIN DeclaredSessions(p, "forwarding")}

\* The volumes that the endpoints of the declared synchronization sessions name.
DeclaredVolumes(p) ==
    UNION {{raw[2] : raw \in {r \in {DeclaredSessions(p, "sync")[name].Alpha,
                                     DeclaredSessions(p, "sync")[name].Beta} :
                                 r # <<>> /\ r[1] = "volume://"}} :
           name \in DOMAIN DeclaredSessions(p, "sync")}

\* C18: after a call of processProject that returns nil, the networks of the
\* sidecar service are the networks that the destinations of the forwarding
\* sessions name, its volumes are the volumes that the endpoints of the
\* synchronization sessions name, each mounted once, and every other service
\* that mounts one of these volumes depends on the sidecar having started.
C18_SidecarDependencies ==
    BuildSucceeded =>
        LET services == project.Services
            sidecar == services[Len(services)]
            volumes == DeclaredVolumes(build.before.project)
        IN
        /\ sidecar.Networks = DeclaredNetworks(build.before.project)
        /\ {sidecar.Volumes[v].Source : v \in 1..Len(sidecar.Volumes)} = volumes
        /\ Len(sidecar.Volumes) = Cardinality(volumes)
        /\ \A v \in 1..Len(sidecar.Volumes) : sidecar.Volumes[v].Type = "volume"
        /\ \A s \in 1..(Len(services) - 1) :
              (\E v \in 1..Len(services[s].Volumes) :
                  /\ services[s].Volumes[v].Type = "volume"
                  /\ services[s].Volumes[v].Source \in volumes)
              => /\ sidecarServiceName \in DOMAIN services[s].DependsOn
                 /\ services[s].DependsOn[sidecarServiceName] = "service_started"

\* A call has returned nil for a forwarding session to the network backend
\* and two synchronization sessions on the volume cache: the sidecar is on
\* the network, mounts the volume once, and the service that mounts the
\* volume depends on it.
C18_Witness ==
    /\ BuildSucceeded
    /\ DOMAIN forwarding = {"web"}
    /\ DOMAIN synchronization = {"data", "logs"}
    /\ LET sidecar == project.Services[Len(project.Services)] IN
       /\ sidecar.Networks = {"backend"}
       /\ Len(sidecar.Volumes) = 1
       /\ sidecar.Volumes[1].Source = "cache"
    /\ project.Services[1].Name = "app"
    /\ sidecarServiceName \in DOMAIN project.Services[1].DependsOn

\* The three configurations of a forwarding session and of a
\* synchronization session: the one of the session as a whole and the one
\* of each endpoint.
ForwardingSlots == {"Configuration", "ConfigurationSource", "ConfigurationDestination"}
SynchronizationSlots == {"Configuration", "ConfigurationAlpha", "ConfigurationBeta"}

\* The defaults entries of the project a call was handed.
DefaultForwarding ==
    DeclaredDefaults(build.before.project, "forwarding",
        [Configuration            |-> [SocketOverwriteMode |-> ""],
         ConfigurationSource      |-> [SocketOverwriteMode |-> ""],
         ConfigurationDestination |-> [SocketOverwriteMode |-> ""]])
DefaultSynchronization ==
    DeclaredDefaults(build.before.project, "sync",
        [Configuration      |-> [SynchronizationMode |-> "", DefaultOwner |-> ""],
         ConfigurationAlpha |-> [SynchronizationMode |-> "", DefaultOwner |-> ""],
         ConfigurationBeta  |-> [SynchronizationMode |-> "", DefaultOwner |-> ""]])

\* The stored specifications have, in every configuration and for every
\* field, the value that a choice among the layers gives.
BuiltFrom(Choice(_, _, _, _)) ==
    /\ \A name \in DOMAIN forwarding : \A slot \in ForwardingSlots :
          \A field \in DOMAIN forwarding[name][slot] :
              forwarding[name][slot][field] =
                  Choice(DeclaredSessions(build.before.project, "forwarding")[name],
                         DefaultForwarding, slot, field)
    /\ \A name \in DOMAIN synchronization : \A slot \in SynchronizationSlots :
          \A field \in DOMAIN synchronization[name][slot] :
              synchronization[name][slot][field] =
                  Choice(DeclaredSessions(build.before.project, "sync")[name],
                         DefaultSynchronization, slot, field)

\* The value of the session, else that of the defaults for the same
\* configuration, else that of the defaults for the session as a whole.
ThreeTiers(session, defaults, slot, field) ==
    IF session[slot][field] # "" THEN session[slot][field]
    ELSE IF defaults[slot][field] # "" THEN defaults[slot][field]
    ELSE defaults["Configuration"][field]

\* The value of the session, else that of the defaults for the same
\* configuration.
TwoTiers(session, defaults, slot, field) ==
    IF session[slot][field] # "" THEN session[slot][field]
    ELSE defaults[slot][field]

-----------------------------------------------------------------------------
(* Properties of processProject: the defaults entry and the nil project. *)

\* The steps of processProject that come after the defaults are taken out.
AfterDefaults == {"forwarding", "synchronization", "dependencies", "service"}

\* The defaults entry of one kind in the x-mutagen section of the project
\* names an endpoint.
DefaultsDeclareEndpoint(p) ==
    \/ LET defaults == DeclaredDefaults(p, "forwarding", PlainForwarding(<<>>, <<>>))
       IN  defaults.Source # <<>> \/ defaults.Destination # <<>>
    \/ LET defaults == DeclaredDefaults(p, "sync", PlainSynchronization(<<>>, <<>>))
       IN  defaults.Alpha # <<>> \/ defaults.Beta # <<>>

\* The x-mutagen section of the project has a defaults entry of the kind.
DeclaresDefaults(p, kind) ==
    /\ ~p.nil
    /\ "x-mutagen" \in DOMAIN p.Extensions
    /\ kind \in DOMAIN p.Extensions["x-mutagen"]
    /\ "defaults" \in DOMAIN p.Extensions["x-mutagen"][kind]

\* C21: a call of processProject on a project whose defaults entry of
\* either kind names an endpoint never gets past the extraction of the
\* defaults and never returns nil; past the extraction no session is named
\* defaults, so that no specification built or stored, and no session the
\* dependencies are collected from, has that name.
C21_DefaultsNeverASession ==
    /\ DefaultsDeclareEndpoint(build.before.project) =>
          /\ build.pc \notin AfterDefaults
          /\ build.pc = "returned" => build.err # ""
    /\ build.pc \in AfterDefaults =>
          "defaults" \notin (DOMAIN build.sessions.Forwarding
                             \cup DOMAIN build.sessions.Synchronization)
    /\ "defaults" \notin (DOMAIN build.forwardingSpecifications
                          \cup DOMAIN build.synchronizationSpecifications)
    /\ "defaults" \notin (DOMAIN forwarding \cup DOMAIN synchronization)
    /\ BuildSucceeded =>
          /\ DOMAIN forwarding = DOMAIN DeclaredSessions(build.before.project, "forwarding")
          /\ DOMAIN synchronization = DOMAIN DeclaredSessions(build.before.project, "sync")

\* A call returns nil on a project that has a defaults entry of the
\* synchronization kind, and stores the specification of the one session
\* declared beside it.
C21_Witness ==
    /\ BuildSucceeded
    /\ DeclaresDefaults(build.before.project, "sync")
    /\ DOMAIN synchronization = {"data"}

\* C26: a call of processProject on the nil project returns nil without a
\* query of the daemon metadata or any other interaction, and leaves the
\* stored specifications and the sessions of the daemon as they were.
C26_NilChangesNothing ==
    (build.pc = "returned" /\ build.calls > 0 /\ build.before.project.nil) =>
        /\ build.err = ""
        /\ build.interactions = <<>>
        /\ forwarding = build.before.forwarding
        /\ synchronization = build.before.synchronization
        /\ build.first.stored =>
              /\ forwarding = build.first.forwarding
              /\ synchronization = build.first.synchronization
        /\ forwardingSessions = {} /\ synchronizationSessions = {}
        /\ \A p \in Procs : pass[p].calls = <<>>

\* A call on the nil project follows a call that stored specifications of
\* both kinds.
C26_Witness ==
    /\ build.pc = "returned" /\ build.calls = 2 /\ build.before.project.nil
    /\ build.first.stored
    /\ forwarding # EmptyMap /\ synchronization # EmptyMap

-----------------------------------------------------------------------------
(* Properties of reconcileSessions: resumption, pruning, listing, creation. *)

\* The positions of the calls of a pass of an operation on a kind of session.
CallsOfKind(p, op, kind) == {i \in CallsOf(p, op) : pass[p].calls[i].kind = kind}

\* The pass has listed and classified, and control has left the two blocks
\* that prune without a failed terminate call.
PastPruning(p) ==
    /\ Classified(p)
    /\ pass[p].pc \notin {"pruneForwarding", "pruneSynchronization"}
    /\ \A t \in CallsOf(p, "terminate") : pass[p].calls[t].ok

\* The identifiers of the prune lists of the pass.
PruneIdentifiers(p) ==
    Range(pass[p].forwardingPruneList) \cup Range(pass[p].synchronizationPruneList)

\* C27 as stated: a pass that is past the pruning and has returned has
\* issued a resume call for the forwarding sessions and a resume call for
\* the synchronization sessions.
C27_ResumeBothKinds ==
    \A p \in Procs :
        (PastPruning(p) /\ pass[p].pc = "returned") =>
            \A kind \in {"forwarding", "synchronization"} :
                CallsOfKind(p, "resume", kind) # {}

\* C27 as amended: a pass past the pruning is about to resume the forwarding
\* sessions or has issued that call, with or without anything to prune or to
\* create; once that call has succeeded (a failed one ends the pass) it is
\* about to resume the synchronization sessions or has issued that call;
\* each resume call is issued once, by label, and when the pass is past the
\* pruning the daemon holds no session of a prune list, so that none is
\* resumed.
C27_ResumeUnconditional ==
    \A p \in Procs :
        /\ PastPruning(p) =>
              /\ pass[p].pc = "resumeForwarding"
                 \/ CallsOfKind(p, "resume", "forwarding") # {}
              /\ \A session \in forwardingSessions \cup synchronizationSessions :
                    session.Identifier \notin PruneIdentifiers(p)
        /\ \A r \in CallsOfKind(p, "resume", "forwarding") :
              pass[p].calls[r].ok =>
                  \/ pass[p].pc = "resumeSynchronization"
                  \/ CallsOfKind(p, "resume", "synchronization") # {}
        /\ \A r \in CallsOf(p, "resume") :
              /\ pass[p].calls[r].identifiers = {}
              /\ \A q \in CallsOf(p, "resume") :
                    pass[p].calls[q].kind = pass[p].calls[r].kind => q = r
              /\ \A t \in CallsOf(p, "terminate") : t < r
        /\ \A c \in CallsOf(p, "create") \cup CallsOf(p, "flush") :
              \A kind \in {"forwarding", "synchronization"} :
                  \E r \in CallsOfKind(p, "resume", kind) : r < c /\ pass[p].calls[r].ok

\* A pass with no specification that lists no session has returned nil
\* after the two resume calls, and nothing else but the listings.
C27_Witness ==
    \E p \in Procs :
        /\ Succeeded(p)
        /\ forwarding = EmptyMap /\ synchronization = EmptyMap
        /\ pass[p].forwardingListResponse = <<>>
        /\ pass[p].synchronizationListResponse = <<>>
        /\ Cardinality(CallsOf(p, "resume")) = 2
        /\ CallsOf(p, "terminate") \cup CallsOf(p, "create") \cup CallsOf(p, "flush") = {}

\* The prune list of a kind of the pass.
PruneList(p, kind) ==
    IF kind = "forwarding" THEN pass[p].forwardingPruneList
    ELSE pass[p].synchronizationPruneList

\* The pass has listed and classified, and control has left the block that
\* prunes the sessions of the kind.
PastPruningOf(p, kind) ==
    /\ Classified(p)
    /\ pass[p].pc # "pruneForwarding"
    /\ kind = "synchronization" =>
          /\ pass[p].pc # "pruneSynchronization"
          /\ \A t \in CallsOfKind(p, "terminate", "forwarding") : pass[p].calls[t].ok

\* C28: a pass issues at most one terminate call per kind of session; the
\* call selects the identifiers of the whole prune list of the kind, which
\* is not empty; and a pass whose control has left the block that prunes a
\* kind has issued the call if and only if the prune list of the kind is
\* not empty.
C28_PruneBatched ==
    \A p \in Procs :
        \A kind \in {"forwarding", "synchronization"} :
            /\ \A t \in CallsOfKind(p, "terminate", kind) :
                  /\ pass[p].calls[t].identifiers = Range(PruneList(p, kind))
                  /\ pass[p].calls[t].identifiers # {}
                  /\ \A u \in CallsOfKind(p, "terminate", kind) : u = t
            /\ PastPruningOf(p, kind) =>
                  (CallsOfKind(p, "terminate", kind) # {} <=> PruneList(p, kind) # <<>>)

\* A pass has returned nil after one terminate call that selected two
\* forwarding sessions of the name of a specification, the first listed for
\* being stale and the second for being a duplicate, and no terminate call
\* for the synchronization sessions, of which it had none to prune.
C28_Witness ==
    \E p \in Procs :
        /\ Succeeded(p)
        /\ Len(pass[p].forwardingListResponse) = 2
        /\ \A i \in 1..2 : pass[p].forwardingListResponse[i].Name = "web"
        /\ "web" \in DOMAIN forwarding
        /\ \E t \in CallsOfKind(p, "terminate", "forwarding") :
              Cardinality(pass[p].calls[t].identifiers) = 2
        /\ CallsOfKind(p, "terminate", "synchronization") = {}

\* The errors of a listing.
ListingErrors ==
    {"forwarding session listing failed",
     "invalid forwarding session listing response received",
     "synchronization session listing failed",
     "invalid synchronization session listing response received"}

\* The operations that change the state of the daemon's sessions.
StateChanging == {"terminate", "resume", "create", "flush"}

\* C29: every terminate, resume, create and flush call of a pass comes after
\* a listing of the forwarding sessions and a listing of the synchronization
\* sessions that both succeeded; a pass that has returned the error of a
\* listing has issued none of those calls.
C29_ListingsFirst ==
    \A p \in Procs :
        /\ \A c \in 1..Len(pass[p].calls) :
              pass[p].calls[c].op \in StateChanging =>
                  \A kind \in {"forwarding", "synchronization"} :
                      \E l \in CallsOfKind(p, "list", kind) : l < c /\ pass[p].calls[l].ok
        /\ (pass[p].pc = "returned" /\ pass[p].err.message \in ListingErrors) =>
              /\ \A c \in 1..Len(pass[p].calls) : pass[p].calls[c].op \notin StateChanging
              /\ ~pass[p].calls[Len(pass[p].calls)].ok
              /\ pass[p].calls[Len(pass[p].calls)].op = "list"

\* A pass has returned on an invalid listing of the synchronization sessions,
\* with specifications to create and with paused sessions of both kinds
\* under its label, which stay paused.
C29_Witness ==
    \E p \in Procs :
        /\ pass[p].pc = "returned"
        /\ pass[p].err.message = "invalid synchronization session listing response received"
        /\ pass[p].forwardingListResponse # <<>>
        /\ forwarding # EmptyMap
        /\ \E session \in OwnedSynchronization(p) : session.Paused
        /\ \E session \in OwnedForwarding(p) : session.Paused

\* The errors of a create call.
CreateErrors ==
    {"unable to create forwarding session", "unable to create synchronization session"}

\* The specifications of the pass to create, those of the forwarding
\* sessions first.
CreateList(p) ==
    pass[p].forwardingCreateSpecifications \o pass[p].synchronizationCreateSpecifications

\* C30: a pass that has returned the error of a create call has that failed
\* call as its last call and names in its error the session of the
\* specification of that call; its create calls are those of the
\* specifications of the create list up to that one, in their order, so that
\* no later specification is created; and it has issued no flush, whatever
\* synchronization sessions it created before.
C30_CreateFailureEndsPass ==
    \A p \in Procs :
        (pass[p].pc = "returned" /\ pass[p].err.message \in CreateErrors) =>
            LET creates == CallsOf(p, "create")
                last == Len(pass[p].calls)
                n == Cardinality(creates)
            IN  /\ last \in creates
                /\ ~pass[p].calls[last].ok
                /\ \A c \in creates \ {last} : pass[p].calls[c].ok
                /\ pass[p].err.session = pass[p].calls[last].name
                /\ n <= Len(CreateList(p))
                /\ pass[p].err.session = CreateList(p)[n].Name
                /\ \A c \in creates :
                      LET k == Cardinality({d \in creates : d <= c})
                      IN  /\ pass[p].calls[c].name = CreateList(p)[k].Name
                          /\ pass[p].calls[c].kind =
                                 IF k <= Len(pass[p].forwardingCreateSpecifications)
                                 THEN "forwarding" ELSE "synchronization"
                /\ CallsOf(p, "flush") = {}

\* A pass has returned on the failed creation of its second synchronization
\* session, having created the first, which is not flushed.
C30_Witness ==
    \E p \in Procs :
        /\ pass[p].pc = "returned"
        /\ pass[p].err.message = "unable to create synchronization session"
        /\ Len(pass[p].synchronizationCreateSpecifications) = 2
        /\ Len(pass[p].newSynchronizationSessions) = 1
        /\ CallsOf(p, "flush") = {}
        /\ \E session \in synchronizationSessions :
              session.Identifier \in Range(pass[p].newSynchronizationSessions)

-----------------------------------------------------------------------------
(* Properties of the functions that connect to the daemon. *)

\* The functions of the liaison that connect to the daemon.
ConnectingFunctions == SessionsFunctions \cup {"reconcileSessions"}

\* The steps at which a function has not connected yet.
BeforeConnection == {"idle", "connect", "sessionsConnect"}

\* C22: in reconcileSessions, listSessions, pauseSessions, resumeSessions
\* and terminateSessions the connection to the daemon is open from the
\* successful connect call until the return and closed once the function
\* has returned, with nil or with any error; when the connect call fails
\* there is no connection and the function returns without any other call
\* to the daemon; and no call is issued to the daemon without a connect call
\* that succeeded before it.
C22_ConnectionClosed ==
    \A p \in Procs :
        /\ pass[p].pc # "idle" => pass[p].function \in ConnectingFunctions
        /\ pass[p].pc \in BeforeConnection =>
              pass[p].daemonConnection = "none" /\ pass[p].calls = <<>>
        /\ pass[p].pc \notin BeforeConnection \cup {"returned"} =>
              pass[p].daemonConnection = "open"
        /\ pass[p].pc = "returned" =>
              /\ pass[p].calls # <<>>
              /\ pass[p].calls[1].op = "connect"
              /\ IF pass[p].calls[1].ok
                 THEN pass[p].daemonConnection = "closed"
                 ELSE /\ pass[p].daemonConnection = "none"
                      /\ Len(pass[p].calls) = 1
                      /\ pass[p].err.message = "unable to connect to Mutagen daemon"
        /\ \A c \in 2..Len(pass[p].calls) :
              pass[p].calls[1].ok /\ pass[p].calls[c].op # "connect"

\* terminateSessions has returned the error of its synchronization step,
\* after the termination of the forwarding sessions, and its connection is
\* closed.
C22_Witness ==
    \E p \in Procs :
        /\ pass[p].pc = "returned"
        /\ pass[p].function = "terminateSessions"
        /\ pass[p].err.message = "synchronization termination failed"
        /\ pass[p].daemonConnection = "closed"
        /\ OwnedForwarding(p) = {}
        /\ OwnedSynchronization(p) # {}

\* The functions that change the sessions of the project.
ChangingFunctions == {"pauseSessions", "resumeSessions", "terminateSessions"}

\* What a function that has returned nil leaves of a session it selected.
Left(function, session) ==
    CASE function = "pauseSessions" -> session.Paused
      [] function = "resumeSessions" -> ~session.Paused
      [] function = "terminateSessions" -> FALSE

\* C25: the calls of pauseSessions, resumeSessions and terminateSessions
\* are the connect call, the operation of the function on the forwarding
\* sessions and then on the synchronization sessions, each by label; a
\* failed forwarding step is the last call, and the function returns its
\* error; once the function has returned nil, every session that the
\* selection of reconcileSessions selects for the same sidecar is paused,
\* running or gone, with or without stored specifications; and the sessions
\* of another sidecar stay as they are.
C25_SessionsByLabel ==
    \A p \in Procs :
        /\ pass[p].function \in ChangingFunctions =>
              /\ Len(pass[p].calls) <= 3
              /\ \A c \in 2..Len(pass[p].calls) :
                    /\ pass[p].calls[c].op = sessionsOperation(pass[p].function)
                    /\ pass[p].calls[c].kind =
                           IF c = 2 THEN "forwarding" ELSE "synchronization"
                    /\ pass[p].calls[c].identifiers = {}
                    /\ ~pass[p].calls[c].ok =>
                          /\ Len(pass[p].calls) = c
                          /\ pass[p].pc = "returned"
                          /\ pass[p].err.message =
                                 sessionsError(pass[p].function, pass[p].calls[c].kind)
              /\ Succeeded(p) =>
                    /\ Len(pass[p].calls) = 3
                    /\ \A session \in OwnedForwarding(p) \cup OwnedSynchronization(p) :
                          Left(pass[p].function, session)
        /\ OtherForwardingSession \in forwardingSessions
        /\ OtherSynchronizationSession \in synchronizationSessions

\* pauseSessions, with no specification stored, has returned the error of
\* its forwarding step: the forwarding session of the project is not
\* paused and the synchronization session, for which no call was issued,
\* is running.
C25_Witness ==
    \E p \in Procs :
        /\ pass[p].pc = "returned"
        /\ pass[p].function = "pauseSessions"
        /\ pass[p].err.message = "forwarding pausing failed"
        /\ Len(pass[p].calls) = 2
        /\ forwarding = EmptyMap /\ synchronization = EmptyMap
        /\ \E session \in OwnedForwarding(p) : ~session.Paused
        /\ \E session \in OwnedSynchronization(p) : ~session.Paused

-----------------------------------------------------------------------------
(* Properties of a run: processProject, then reconcileSessions. *)

\* The URLs of the stored specifications.
StoredURLs ==
    UNION {{forwarding[name].Source, forwarding[name].Destination} : name \in DOMAIN forwarding}
    \cup UNION {{synchronization[name].Alpha, synchronization[name].Beta} :
                   name \in DOMAIN synchronization}

\* The labels of the stored specifications.
StoredLabels ==
    {forwarding[name].Labels : name \in DOMAIN forwarding}
    \cup {synchronization[name].Labels : name \in DOMAIN synchronization}

\* The label of the sessions that the sidecar owns.
OwnershipLabel(sidecarID) == sessionSidecarLabelKey :> chopSidecarIdentifier(sidecarID)

\* C23: until a pass of reconcileSessions starts, the specifications that
\* processProject builds and stores have no label and no URL of a
\* container, only local URLs and placeholders; from the entry of a pass
\* on, before its first call to the daemon, every stored specification of
\* both kinds has the ownership label of the truncated identity of the
\* sidecar of the pass and every placeholder is the URL of that sidecar, and
\* so has every session that the pass creates.
C23_LabelledInPass ==
    /\ \A name \in DOMAIN build.forwardingSpecifications :
          build.forwardingSpecifications[name].Labels = NoLabels
    /\ \A name \in DOMAIN build.synchronizationSpecifications :
          build.synchronizationSpecifications[name].Labels = NoLabels
    /\ NoPassYet =>
          /\ StoredLabels \subseteq {NoLabels}
          /\ \A u \in StoredURLs : u.Protocol \in {"local", "sidecar"}
    /\ \A p \in Procs :
          pass[p].pc # "idle" =>
              /\ StoredLabels \subseteq {OwnershipLabel(pass[p].sidecarID)}
              /\ \A u \in StoredURLs :
                    \/ u.Protocol = "local"
                    \/ u.Protocol = "docker" /\ u.Host = pass[p].sidecarID
              /\ \A session \in forwardingSessions \cup synchronizationSessions :
                    session.Identifier \in CreatedForwarding(p) \cup CreatedSynchronization(p)
                        => session.Labels = OwnershipLabel(pass[p].sidecarID)

\* A pass has connected, after processProject stored specifications of both
\* kinds, and has issued no other call yet.
C23_Witness ==
    \E p \in Procs :
        /\ pass[p].pc = "listForwarding"
        /\ Len(pass[p].calls) = 1
        /\ forwarding # EmptyMap /\ synchronization # EmptyMap
        /\ \E u \in StoredURLs : u.Protocol = "docker"
        /\ BuildSucceeded

-----------------------------------------------------------------------------
(* Properties of concurrent passes. *)

\* The names that two or more of the sessions hold.
Shared(sessions) ==
    {session.Name : session \in {x \in sessions :
                                    \E y \in sessions : y # x /\ y.Name = x.Name}}

\* C24: when the pass that follows two concurrent passes for the same
\* sidecar and the same specifications has returned nil, the daemon holds
\* under the ownership label exactly one session per specification, equal
\* to it, and no other session, whatever the interleaving of the calls of
\* the two passes left, sessions of the same name included.
C24_ConvergedAfterConcurrentPasses ==
    Succeeded(FollowingPass) => Converged(FollowingPass)

\* The two concurrent passes have each created a forwarding session named
\* web and a synchronization session named data; the following pass listed
\* the two of each kind, pruned one of each and has returned nil.
C24_Witness ==
    /\ Succeeded(FollowingPass)
    /\ \A p \in ConcurrentPasses : CreatedForwarding(p) # {} /\ CreatedSynchronization(p) # {}
    /\ Shared(Range(pass[FollowingPass].forwardingListResponse)) = {"web"}
    /\ Shared(Range(pass[FollowingPass].synchronizationListResponse)) = {"data"}
    /\ Cardinality(CallsOf(FollowingPass, "terminate")) = 2
    /\ Shared(forwardingSessions) = {} /\ Shared(synchronizationSessions) = {}


-----------------------------------------------------------------------------
(* Properties of the ownership label. *)

\* C31: a pass of reconcileSessions lists only sessions that carry the
\* ownership label of its sidecar, terminates only sessions it listed,
\* resumes by the selection of that label and flushes only sessions it
\* created; the sessions that carry the label of another sidecar stay in
\* the daemon as they were, paused or running, whatever passes are run.
C31_OtherLabelsUntouched ==
    /\ OtherForwardingSession \in forwardingSessions
    /\ OtherSynchronizationSession \in synchronizationSessions
    /\ \A p \in Procs :
          pass[p].function = "reconcileSessions" =>
              /\ \A i \in 1..Len(pass[p].forwardingListResponse) :
                    pass[p].forwardingListResponse[i].Labels = OwnershipLabel(pass[p].sidecarID)
              /\ \A i \in 1..Len(pass[p].synchronizationListResponse) :
                    pass[p].synchronizationListResponse[i].Labels =
                        OwnershipLabel(pass[p].sidecarID)
              /\ \A t \in CallsOfKind(p, "terminate", "forwarding") :
                    pass[p].calls[t].identifiers \subseteq
                        Identifiers(pass[p].forwardingListResponse)
              /\ \A t \in CallsOfKind(p, "terminate", "synchronization") :
                    pass[p].calls[t].identifiers \subseteq
                        Identifiers(pass[p].synchronizationListResponse)
              /\ \A r \in CallsOf(p, "resume") : pass[p].calls[r].identifiers = {}
              /\ \A f \in CallsOf(p, "flush") :
                    pass[p].calls[f].identifiers \subseteq CreatedSynchronization(p)

\* A pass has returned nil after it terminated the sessions of its sidecar
\* and issued its resume calls, while the daemon holds, paused, a forwarding
\* session of the same name that carries the label of another sidecar.
C31_Witness ==
    \E p \in Procs :
        /\ pass[p].function = "reconcileSessions"
        /\ Succeeded(p)
        /\ \E t \in CallsOf(p, "terminate") : pass[p].calls[t].identifiers # {}
        /\ CallsOf(p, "resume") # {}
        /\ OwnedForwarding(p) = {}
        /\ \E session \in forwardingSessions :
              /\ session.Paused
              /\ session.Labels = OwnershipLabel(OtherSidecarID)


\* The identifiers of the sessions the daemon held before any pass.
InitialIdentifiers ==
    {OtherForwardingSession.Identifier, OtherSynchronizationSession.Identifier}
    \cup {session.Identifier : session \in EarlierForwardingSessions}
    \cup {session.Identifier : session \in EarlierSynchronizationSessions}

\* The sessions of the daemon that passes of reconcileSessions created.
CreatedByPasses(sessions) ==
    {session \in sessions : session.Identifier \notin InitialIdentifiers}

\* C32: the label that a pass stamps on the specifications has the key and
\* the value of the selection of reconcileSessions and of the selection of
\* listSessions, pauseSessions, resumeSessions and terminateSessions for the
\* same sidecar identity; every session that a pass created is selected by
\* both, is in the listing of a later pass for that identity, and is paused,
\* running or gone once pauseSessions, resumeSessions or terminateSessions
\* has returned nil for that identity.
C32_LabelIsSelection ==
    \A p \in Procs :
        pass[p].pc # "idle" =>
            LET created == CreatedByPasses(forwardingSessions)
                               \cup CreatedByPasses(synchronizationSessions)
            IN
            /\ projectSelection(pass[p].sidecarID) = sessionsSelection(pass[p].sidecarID)
            /\ pass[p].function = "reconcileSessions" =>
                  \A specification \in
                          {forwarding[name] : name \in DOMAIN forwarding} \cup
                          {synchronization[name] : name \in DOMAIN synchronization} :
                      /\ DOMAIN specification.Labels =
                             {projectSelection(pass[p].sidecarID).LabelSelector[1]}
                      /\ specification.Labels[sessionSidecarLabelKey] =
                             projectSelection(pass[p].sidecarID).LabelSelector[2]
            /\ \A session \in created :
                  /\ Selected(session, projectSelection(pass[p].sidecarID))
                  /\ Selected(session, sessionsSelection(pass[p].sidecarID))
            /\ (pass[p].function = "reconcileSessions" /\ pass[p].pc = "listSynchronization") =>
                  CreatedByPasses(forwardingSessions) \subseteq
                      Range(pass[p].forwardingListResponse)
            /\ (/\ pass[p].function = "reconcileSessions"
                /\ Classified(p)
                /\ CallsOf(p, "terminate") = {}
                /\ CallsOf(p, "create") = {}) =>
                  /\ {session.Identifier : session \in CreatedByPasses(forwardingSessions)}
                         \subseteq Identifiers(pass[p].forwardingListResponse)
                  /\ {session.Identifier : session \in CreatedByPasses(synchronizationSessions)}
                         \subseteq Identifiers(pass[p].synchronizationListResponse)
            /\ (pass[p].function \in ChangingFunctions /\ Succeeded(p)) =>
                  \A session \in created : Left(pass[p].function, session)

\* A pass that follows a pass that returned nil has listed, for the same
\* sidecar identity, a forwarding session and a synchronization session that
\* passes created.
C32_Witness ==
    \E p \in Procs :
        /\ pass[p].function = "reconcileSessions"
        /\ pass[p].previous = "ok"
        /\ Classified(p)
        /\ Range(pass[p].forwardingListResponse) \cap CreatedByPasses(forwardingSessions) # {}
        /\ Range(pass[p].synchronizationListResponse)
               \cap CreatedByPasses(synchronizationSessions) # {}


-----------------------------------------------------------------------------
(* Properties of the classification by kind. *)

\* The names of the sessions of a listing.
ListedNames(states) == {states[i].Name : i \in 1..Len(states)}

\* The names of the specifications of a list of specifications to create.
CreateNames(specifications) == {specifications[i].Name : i \in 1..Len(specifications)}

\* C33: once a pass has classified its listings, the prune list of a kind
\* holds only sessions of the listing of that kind; a listed forwarding
\* session whose name has no forwarding specification is in the forwarding
\* prune list, whether or not a synchronization specification has that
\* name, and a listed synchronization session whose name has no
\* synchronization specification is in the synchronization prune list,
\* whether or not a forwarding specification has that name; a specification
\* of a kind is to be created when no session of its name is in the listing
\* of that kind, whatever the listing of the other kind holds.
C33_KindsClassifiedApart ==
    \A p \in Procs :
        Classified(p) =>
            /\ Range(pass[p].forwardingPruneList) \subseteq
                   Identifiers(pass[p].forwardingListResponse)
            /\ Range(pass[p].synchronizationPruneList) \subseteq
                   Identifiers(pass[p].synchronizationListResponse)
            /\ \A i \in 1..Len(pass[p].forwardingListResponse) :
                  pass[p].forwardingListResponse[i].Name \notin DOMAIN forwarding =>
                      pass[p].forwardingListResponse[i].Identifier \in
                          Range(pass[p].forwardingPruneList)
            /\ \A i \in 1..Len(pass[p].synchronizationListResponse) :
                  pass[p].synchronizationListResponse[i].Name \notin DOMAIN synchronization =>
                      pass[p].synchronizationListResponse[i].Identifier \in
                          Range(pass[p].synchronizationPruneList)
            /\ \A name \in DOMAIN forwarding :
                  name \notin ListedNames(pass[p].forwardingListResponse) =>
                      name \in CreateNames(pass[p].forwardingCreateSpecifications)
            /\ \A name \in DOMAIN synchronization :
                  name \notin ListedNames(pass[p].synchronizationListResponse) =>
                      name \in CreateNames(pass[p].synchronizationCreateSpecifications)

\* A pass has returned nil with a synchronization specification and no
\* forwarding specification of a name of which it listed a forwarding
\* session and no synchronization session: it terminated the forwarding
\* session and created the synchronization session.
C33_Witness ==
    \E p \in Procs :
        /\ Succeeded(p)
        /\ \E name \in DOMAIN synchronization \ DOMAIN forwarding :
              /\ name \notin ListedNames(pass[p].synchronizationListResponse)
              /\ \E i \in 1..Len(pass[p].forwardingListResponse) :
                    /\ pass[p].forwardingListResponse[i].Name = name
                    /\ \E t \in CallsOfKind(p, "terminate", "forwarding") :
                          pass[p].forwardingListResponse[i].Identifier \in
                              pass[p].calls[t].identifiers
              /\ \E c \in CallsOfKind(p, "create", "synchronization") :
                    pass[p].calls[c].name = name /\ pass[p].calls[c].ok


-----------------------------------------------------------------------------
(* Properties of the dependencies on the sidecar. *)

\* The positions of the services that have a mount of type volume whose
\* source is a volume that the sessions of the project name.
MountingPositions(services, volumes) ==
    {s \in 1..Len(services) :
        \E v \in 1..Len(services[s].Volumes) :
            /\ services[s].Volumes[v].Type = "volume"
            /\ services[s].Volumes[v].Source \in volumes}

\* C38: after a call of processProject that returns nil, the dependencies of
\* a service that has a mount of type volume whose source is a volume of
\* the sessions are the dependencies it had, with the dependency on the
\* sidecar having started; the dependencies of every other service are the
\* dependencies it had.
C38_DependencyOnlyWhereMounted ==
    BuildSucceeded =>
        LET old == build.before.project.Services
            new == project.Services
            mounting == MountingPositions(old, DeclaredVolumes(build.before.project))
        IN
        \A s \in 1..Len(old) :
            IF s \in mounting
            THEN /\ DOMAIN new[s].DependsOn = DOMAIN old[s].DependsOn \cup {sidecarServiceName}
                 /\ new[s].DependsOn[sidecarServiceName] = ServiceConditionStarted
                 /\ \A service \in DOMAIN old[s].DependsOn \ {sidecarServiceName} :
                       new[s].DependsOn[service] = old[s].DependsOn[service]
            ELSE new[s].DependsOn = old[s].DependsOn

\* A call has returned nil on a project of which one service has a mount of
\* type volume of a volume of the sessions and a dependency of its own, and
\* another service has a bind mount whose source has the name of that
\* volume: the first depends on the sidecar and keeps its dependency, the
\* second has no dependency on the sidecar.
C38_Witness ==
    /\ BuildSucceeded
    /\ LET old == build.before.project.Services
           new == project.Services
           volumes == DeclaredVolumes(build.before.project)
       IN
       /\ \E s \in MountingPositions(old, volumes) :
             /\ DOMAIN old[s].DependsOn # {}
             /\ sidecarServiceName \notin DOMAIN old[s].DependsOn
             /\ sidecarServiceName \in DOMAIN new[s].DependsOn
       /\ \E s \in (1..Len(old)) \ MountingPositions(old, volumes) :
             /\ \E v \in 1..Len(old[s].Volumes) :
                   old[s].Volumes[v].Type = "bind" /\ old[s].Volumes[v].Source \in volumes
             /\ sidecarServiceName \notin DOMAIN new[s].DependsOn


-----------------------------------------------------------------------------
(* Properties of a project without an x-mutagen section. *)

\* The project is not nil and has no x-mutagen section.
NoExtension(p) == ~p.nil /\ "x-mutagen" \notin DOMAIN p.Extensions

\* C37: a call of processProject on a project without an x-mutagen section
\* returns no error of the decoding or of a later step (its only errors are
\* those of the steps before the decoding: the conflict of service names
\* and the query of the daemon metadata); when it returns nil, the services
\* are those it was handed, each as it was, followed by the sidecar service
\* with no network and no volume, and the liaison stores no forwarding and
\* no synchronization specification; a pass of reconcileSessions that
\* follows puts every session it lists in its prune lists and creates none,
\* and once it has returned nil the daemon holds no session of the sidecar.
C37_NoExtensionStillProcessed ==
    NoExtension(build.before.project) =>
        /\ BuildErred => build.err \in {ConflictError, MetadataError}
        /\ BuildSucceeded =>
              /\ project.Services =
                     Append(build.before.project.Services, sidecarService({}, <<>>))
              /\ forwarding = EmptyMap
              /\ synchronization = EmptyMap
              /\ \A p \in Procs :
                    /\ Classified(p) =>
                          /\ Range(pass[p].forwardingPruneList) =
                                 Identifiers(pass[p].forwardingListResponse)
                          /\ Range(pass[p].synchronizationPruneList) =
                                 Identifiers(pass[p].synchronizationListResponse)
                          /\ pass[p].forwardingCreateSpecifications = <<>>
                          /\ pass[p].synchronizationCreateSpecifications = <<>>
                    /\ Succeeded(p) =>
                          /\ OwnedForwarding(p) = {}
                          /\ OwnedSynchronization(p) = {}
                          /\ CallsOf(p, "create") = {}

\* processProject has returned nil on a project without an x-mutagen
\* section, of which a service mounts a volume, and the pass that followed
\* has returned nil after it terminated the forwarding session and the
\* synchronization session that an earlier run had left.
C37_Witness ==
    /\ NoExtension(build.before.project)
    /\ BuildSucceeded
    /\ \E s \in 1..Len(build.before.project.Services) :
          build.before.project.Services[s].Volumes # <<>>
    /\ \E p \in Procs :
          /\ Succeeded(p)
          /\ \E t \in CallsOfKind(p, "terminate", "forwarding") :
                pass[p].calls[t].identifiers = {LeftForwardingSession.Identifier}
          /\ \E t \in CallsOfKind(p, "terminate", "synchronization") :
                pass[p].calls[t].identifiers = {LeftSynchronizationSession.Identifier}
          /\ forwardingSessions = {}
          /\ synchronizationSessions = {}


-----------------------------------------------------------------------------
(* Properties of composeService. *)

\* The function has returned.
ComposeHasReturned(function) == compose.pc = "returned" /\ compose.function = function

\* C34: when Pull, Create, Up or Down returns after processProject returned
\* nil on the project it was handed, with nil or with the error of any of
\* its calls, the services and the disabled services of the project are
\* those that processProject left; and at no call of the underlying Compose
\* service were the service lists of the project those lists.
C34_ServiceListsRestored ==
    (compose.function \in ProcessingFunctions /\ compose.after.set) =>
        /\ compose.pc = "returned" =>
              /\ project.Services = compose.after.Services
              /\ project.DisabledServices = compose.after.DisabledServices
        /\ \A c \in 1..Len(compose.calls) :
              compose.calls[c].op # "Stop" =>
                  <<compose.calls[c].Services, compose.calls[c].DisabledServices>> #
                      <<compose.after.Services, compose.after.DisabledServices>>

\* Up has returned nil, on a project with a disabled service: its first
\* underlying Up was handed other services and no disabled service, its
\* second the services of the project and one more disabled service.
C34_Witness ==
    /\ ComposeHasReturned("Up")
    /\ compose.err = ""
    /\ compose.after.set
    /\ project.DisabledServices = <<DisabledService>>
    /\ Len(compose.calls) = 3
    /\ compose.calls[2].Services # project.Services
    /\ compose.calls[2].DisabledServices = <<>>
    /\ compose.calls[3].Services = project.Services
    /\ Len(compose.calls[3].DisabledServices) = 2

\* The calls of Up, in the order of the program, given the services and the
\* disabled services that processProject left.
UpCalls(after) ==
    <<[op |-> "Stop", Services |-> <<>>, DisabledServices |-> <<>>,
       options |-> [Services |-> <<sidecarServiceName>>, IgnoreOrphans |-> FALSE,
                    AttachTo |-> <<>>]],
      [op |-> "Up", Services |-> <<after.Services[Len(after.Services)]>>,
       DisabledServices |-> <<>>,
       options |-> [Services |-> <<sidecarServiceName>>, IgnoreOrphans |-> TRUE,
                    AttachTo |-> <<sidecarServiceName>>]],
      [op |-> "Up", Services |-> after.Services,
       DisabledServices |-> Append(after.DisabledServices,
                                   after.Services[Len(after.Services)]),
       options |-> UserOptions]>>

\* C35: Up issues no call before processProject has returned nil; its
\* calls are, in this order, the stop of the sidecar service, the Up of the
\* project with the sidecar service as its only service, no disabled
\* service and orphans ignored, and the Up of the project with its services
\* and the options of the caller; each is issued only when the one before
\* succeeded; Up returns an error when processProject, the stop or the Up
\* of the sidecar service failed, and nil only after the three calls.
C35_UpInOrder ==
    compose.function = "Up" =>
        /\ Len(compose.calls) <= 3
        /\ compose.calls # <<>> =>
              /\ compose.after.set
              /\ build.pc = "returned" /\ build.err = ""
              /\ build.calls = compose.processed + 1
        /\ \A c \in 1..Len(compose.calls) :
              /\ [field \in {"op", "Services", "DisabledServices", "options"} |->
                     compose.calls[c][field]] = UpCalls(compose.after)[c]
              /\ compose.calls[c].Services # <<>> =>
                    compose.calls[c].Services[Len(compose.calls[c].Services)].Name =
                        sidecarServiceName
              /\ c < Len(compose.calls) => compose.calls[c].ok
              /\ ~compose.calls[c].ok => compose.pc = "returned"
        /\ compose.pc = "returned" =>
              /\ compose.err = "" <=>
                    (Len(compose.calls) = 3 /\ compose.calls[3].ok)
              /\ compose.calls = <<>> <=> compose.err = ProcessError
              /\ compose.err = ProcessError <=> build.err # ""
              /\ (Len(compose.calls) = 1) <=> compose.err = StopSidecarError
              /\ (Len(compose.calls) = 2) <=> compose.err = UpSidecarError
              /\ compose.err = StopSidecarError => ~compose.calls[1].ok
              /\ compose.err = UpSidecarError => ~compose.calls[2].ok

\* Up has returned nil after its three calls, on a project of which
\* processProject stored a synchronization specification.
C35_Witness ==
    /\ ComposeHasReturned("Up")
    /\ compose.err = ""
    /\ Len(compose.calls) = 3
    /\ DOMAIN synchronization # {}
    /\ Len(compose.calls[3].Services) > 1

\* The positions of the calls of an operation among the calls of the function.
ComposeCallsOf(op) == {c \in 1..Len(compose.calls) : compose.calls[c].op = op}

\* C36: the first call of Ps is the listing of the sidecar containers;
\* listSessions is called only when that listing returned one container;
\* when it returned none, Ps calls the underlying Ps next and returns its
\* result; when it returned more than one, Ps returns an error and issues no
\* other call.
C36_PsListsForOneContainer ==
    compose.function = "Ps" =>
        /\ \A c \in 1..Len(compose.calls) :
              (c = 1) <=> (compose.calls[c].op = "ContainerList")
        /\ compose.pc \in {"listSessions", "listing"} \/ ComposeCallsOf("listSessions") # {} =>
              compose.calls[1].ok /\ compose.calls[1].containers = 1
        /\ (compose.calls # <<>> /\ compose.calls[1].ok /\ compose.calls[1].containers = 0) =>
              /\ compose.pc \in {"Ps", "returned"}
              /\ compose.pc = "returned" =>
                    /\ Len(compose.calls) = 2
                    /\ compose.calls[2].op = "Ps"
                    /\ compose.err = IF compose.calls[2].ok THEN "" ELSE UnderlyingError("Ps")
        /\ (compose.calls # <<>> /\ compose.calls[1].ok /\ compose.calls[1].containers > 1) =>
              /\ compose.pc = "returned"
              /\ compose.err = MultipleContainersError
              /\ Len(compose.calls) = 1
        /\ \A c \in ComposeCallsOf("Ps") :
              /\ c = Len(compose.calls)
              /\ compose.calls[1].ok
              /\ \A l \in ComposeCallsOf("listSessions") : compose.calls[l].ok

\* Ps has returned nil after the listing of one container, the listing of
\* the sessions of the project and the underlying Ps.
C36_Witness ==
    /\ ComposeHasReturned("Ps")
    /\ compose.err = ""
    /\ Len(compose.calls) = 3
    /\ compose.calls[1].containers = 1
    /\ compose.calls[2].op = "listSessions"
    /\ \E p \in Procs : pass[p].function = "listSessions" /\ Succeeded(p)

====
